----------------------------- MODULE Spec2Model -----------------------------
(***************************************************************************)
(* Model of the SmartGallery ingestion pipeline (tauri-sveltekit-main):    *)
(* scanner.rs full_sync and its per-file tasks, the SQLite record store of *)
(* database.rs (tables files and workflow_metadata), and the commands of   *)
(* commands.rs that change the store or the disk.                          *)
(*                                                                         *)
(* Time is counted in ticks of 1/TicksPerSec second, so that an mtime has  *)
(* a sub-second part that `as i64` truncates.  A path is <<dir, name>>.    *)
(* The parameter records extracted from a file are abstracted to their     *)
(* number (nrec) and to the version of the file they were read from (the   *)
(* file's mtime tick, kept in the row's field data).                       *)
(***************************************************************************)
EXTENDS Integers, Sequences, FiniteSets, TLC

NumDirs == 2
NumNames == 2
MaxTime == 2
TicksPerSec == 2
MaxSamplers == 2
NumWorkers == 2
MaxFiles == 2
MaxOps == 3
MaxRuns == 3
CmdMaxFiles == 1
CmdMaxOps == 4
CmdMaxRuns == 2
LiveMaxOps == 2
LiveMaxRuns == 2
NumNodes == 3
MaxGraphNodes == 2
CacheMaxSize == 2
CacheTtl == 2
CacheMaxTime == 3
CacheMaxOps == 5
MaxDepth == 3
MaxAllowed == 2
CrashMaxOps == 2
CrashMaxRuns == 3
NumDeltaPaths == 3

Dirs == 1..NumDirs
Names == 1..NumNames
Paths == Dirs \X Names
Times == 0..MaxTime

VARIABLES
    root,        \* the output directory exists
    disk,        \* path -> [mtime, has_workflow, nrec] for the media files on disk
    files,       \* table files: rows [id, path, mtime, is_favorite, has_workflow]
    meta,        \* table workflow_metadata: rows [file_id, sampler_index, data]
    status,      \* "idle" | "running" | "done": the full_sync call
    result,      \* "none" | "ok" | "err": what the last full_sync returned
    delta,       \* [to_add, to_update, to_delete] of the current run
    task,        \* path -> the state of the task processing it (files_to_process)
    stats,       \* ScanStats of the current run
    processed,   \* the progress counter
    events,      \* the SyncProgress events the callback received, in order
    hist,        \* history of the current run, read by the properties only
    used,        \* [ops, runs]: disk changes and commands, and runs, so far
    lim,         \* [ops, runs, files, dirs]: the bounds of the exploration
    pure         \* the inputs and the progress of a function applied alone

vars == <<root, disk, files, meta, status, result, delta, task, stats,
          processed, events, hist, used, lim, pure>>

-----------------------------------------------------------------------------
(* scanner.rs: identity and the diff                                       *)

\* Hex of the first 16 bytes of SHA-256 of the path: one id per path.
generate_file_id(path) == 100 + 10 * path[1] + path[2]

Ids == {generate_file_id(p) : p \in Paths}

\* An mtime compared as it is, with its sub-second part.
TruncSecsExact(mtime) == mtime

\* `mtime as i64`: the f64 seconds truncated to whole seconds.
TruncSecs(mtime) == mtime \div TicksPerSec

\* The mtime comparison of the filter closure of full_sync.
NeedsUpdate(disk_mtime, db_mtime) == TruncSecs(disk_mtime) > TruncSecs(db_mtime)

\* to_delete, to_add and to_update of full_sync, from the two HashMaps.
ComputeDelta(db_files, disk_files) ==
    LET db_paths == DOMAIN db_files
        disk_paths == DOMAIN disk_files
        to_check == disk_paths \cap db_paths
    IN  [to_delete |-> db_paths \ disk_paths,
         to_add |-> disk_paths \ db_paths,
         to_update |-> {p \in to_check : NeedsUpdate(disk_files[p], db_files[p])}]

EmptyDelta == [to_delete |-> {}, to_add |-> {}, to_update |-> {}]

\* A processing set that takes in the paths to delete as well.
FilesToProcessAll(d) == d.to_add \cup d.to_update \cup d.to_delete

\* files_to_process: to_add extended by to_update.
FilesToProcess(d) == d.to_add \cup d.to_update

\* A total that counts the new files only.
total_files_added(d) == Cardinality(d.to_add)

\* total_files: files_to_process.len(), taken before the dispatch.
total_files(d) == Cardinality(FilesToProcess(d))

-----------------------------------------------------------------------------
(* database.rs: the two tables                                             *)

RowOf(tbl, id) == CHOOSE r \in tbl : r.id = id

HasId(tbl, id) == \E r \in tbl : r.id = id

\* get_all_file_paths: SELECT path, mtime FROM files, collected into a map.
get_all_file_paths(tbl) ==
    [p \in {r.path : r \in tbl} |-> (CHOOSE r \in tbl : r.path = p).mtime]

\* The rows INSERT OR REPLACE removes: those that conflict with the new row on
\* the primary key id or on the UNIQUE column path.
Conflicting(tbl, row) == {r \in tbl : r.id = row.id \/ r.path = row.path}

\* upsert_file: INSERT OR REPLACE INTO files.
upsert_file(tbl, row) == (tbl \ Conflicting(tbl, row)) \cup {row}

\* FOREIGN KEY (file_id) REFERENCES files(id) ON DELETE CASCADE: the metadata
\* rows left once the files rows with the ids in gone are deleted.
Cascade(m, gone) == {x \in m : x.file_id \notin gone}

\* The ids whose rows a replace of row removes for good (the row's own id is
\* deleted and inserted again, which deletes its metadata rows too).
Replaced(tbl, row) == {r.id : r \in Conflicting(tbl, row)}

\* insert_workflow_metadata: INSERT OR REPLACE on UNIQUE (file_id, sampler_index).
insert_workflow_metadata(m, x) ==
    {y \in m : ~(y.file_id = x.file_id /\ y.sampler_index = x.sampler_index)} \cup {x}

\* delete_file: DELETE FROM files WHERE id = ?.
delete_file(tbl, id) == {r \in tbl : r.id # id}

-----------------------------------------------------------------------------
(* scanner.rs: run state                                                   *)

NewStats == [total_processed |-> 0, files_with_workflows |-> 0,
             metadata_extracted |-> 0, failed_files |-> 0]

NewHist == [snapshot_failed |-> FALSE, root_at_scan |-> TRUE, wrote |-> FALSE,
            quiet |-> FALSE]

NewTask == [pc |-> "queued", result |-> "none", mtime |-> 0, nrec |-> 0,
            has_workflow |-> FALSE, is_favorite |-> FALSE, i |-> 0,
            seen_fav |-> FALSE, insert_failed |-> FALSE]

NoPure == [db |-> <<>>, disk |-> <<>>, out |-> EmptyDelta, done |-> FALSE]

Active == {p \in DOMAIN task : task[p].pc \notin {"queued", "done"}}

Init ==
    /\ root = TRUE
    /\ disk = <<>>
    /\ files = {}
    /\ meta = {}
    /\ status = "idle"
    /\ result = "none"
    /\ delta = EmptyDelta
    /\ task = <<>>
    /\ stats = NewStats
    /\ processed = 0
    /\ events = <<>>
    /\ hist = NewHist
    /\ used = [ops |-> 0, runs |-> 0]
    /\ lim = [ops |-> CmdMaxOps, runs |-> CmdMaxRuns, files |-> CmdMaxFiles,
              dirs |-> Dirs]
    /\ pure = NoPure

\* The same start, for the runs of full_sync over one directory with the
\* disk changing between them.
InitSync ==
    /\ root = TRUE
    /\ disk = <<>>
    /\ files = {}
    /\ meta = {}
    /\ status = "idle"
    /\ result = "none"
    /\ delta = EmptyDelta
    /\ task = <<>>
    /\ stats = NewStats
    /\ processed = 0
    /\ events = <<>>
    /\ hist = NewHist
    /\ used = [ops |-> 0, runs |-> 0]
    /\ lim = [ops |-> MaxOps, runs |-> MaxRuns, files |-> MaxFiles, dirs |-> {1}]
    /\ pure = NoPure

-----------------------------------------------------------------------------
(* scanner.rs: full_sync, up to the dispatch                               *)

\* What a file can hold: no embedded graph, a graph that yields no parameter
\* record, or a graph that yields nrec of them.
Contents == {c \in [has_workflow : BOOLEAN, nrec : 0..MaxSamplers] :
                c.nrec > 0 => c.has_workflow}

DiskFile(t, c) == [mtime |-> t, has_workflow |-> c.has_workflow, nrec |-> c.nrec]

\* scan_directory followed by the get_mtime loop of full_sync: the disk_files
\* map.  A missing root makes the walker yield one error, which is printed,
\* and the scan returns Ok with no file; a file whose get_mtime fails is left
\* out of the map.
ScanDisk(unreadable) ==
    IF root THEN [p \in (DOMAIN disk) \ unreadable |-> disk[p].mtime] ELSE <<>>

\* A read of the prior snapshot whose failure is not propagated.
SnapshotResultIgnored(read_fails) == "ok"

\* The result of `database::get_all_file_paths(pool).await?`.
SnapshotResult(read_fails) == IF read_fails THEN "err" ELSE "ok"

\* full_sync from its start to the creation of stats and processed.  When the
\* read of the prior snapshot fails the `?` returns the error before anything
\* else is done; otherwise the scan and the diff follow, and the loop over
\* to_delete, whose body is empty.
SyncBegin ==
    /\ status = "idle"
    /\ used.runs < lim.runs
    /\ used' = [used EXCEPT !.runs = @ + 1]
    /\ \E read_fails \in BOOLEAN, unreadable \in SUBSET (DOMAIN disk) :
        IF SnapshotResult(read_fails) = "err"
        THEN /\ unreadable = {}
             /\ status' = "done"
             /\ result' = "err"
             /\ delta' = EmptyDelta
             /\ task' = <<>>
             /\ hist' = [NewHist EXCEPT !.snapshot_failed = read_fails]
        ELSE LET d == ComputeDelta(get_all_file_paths(files), ScanDisk(unreadable))
             IN  /\ status' = "running"
                 /\ result' = "none"
                 /\ delta' = d
                 /\ task' = [p \in FilesToProcess(d) |-> NewTask]
                 /\ hist' = [NewHist EXCEPT !.snapshot_failed = read_fails,
                                            !.root_at_scan = root,
                                            !.quiet = (root /\ unreadable = {})]
    /\ stats' = NewStats
    /\ processed' = 0
    /\ events' = <<>>
    /\ UNCHANGED <<root, disk, files, meta, lim, pure>>

-----------------------------------------------------------------------------
(* scanner.rs: one task of the par_iter, step by step                      *)

Unquiet == [hist EXCEPT !.quiet = FALSE]

\* process_file returns Err: the file vanished, its mtime cannot be read or
\* its name is not valid.
TaskProcessFails(p) ==
    /\ status = "running"
    /\ p \in DOMAIN task
    /\ task[p].pc = "queued"
    /\ Cardinality(Active) < NumWorkers
    /\ task' = [task EXCEPT ![p].pc = "stats", ![p].result = "err"]
    /\ hist' = Unquiet
    /\ UNCHANGED <<root, disk, files, meta, status, result, delta, stats,
                   processed, events, used, lim, pure>>

\* process_file returns the FileEntry (is_favorite false) and the parsed
\* workflow records of the file as it is on disk now.
TaskProcess(p) ==
    /\ status = "running"
    /\ p \in DOMAIN task
    /\ task[p].pc = "queued"
    /\ Cardinality(Active) < NumWorkers
    /\ root
    /\ p \in DOMAIN disk
    /\ task' = [task EXCEPT ![p].pc = "get",
                            ![p].mtime = disk[p].mtime,
                            ![p].has_workflow = disk[p].has_workflow,
                            ![p].nrec = disk[p].nrec,
                            ![p].is_favorite = FALSE]
    /\ UNCHANGED <<root, disk, files, meta, status, result, delta, stats,
                   processed, events, hist, used, lim, pure>>

\* What `if let Ok(Some(existing_file)) = get_file_by_id(..)` leaves in
\* file_entry.is_favorite: the stored value when the lookup returns a row,
\* the false of process_file when it returns None or an error.
FavoriteAfterGet(tbl, id, get_fails) ==
    IF ~get_fails /\ HasId(tbl, id) THEN RowOf(tbl, id).is_favorite ELSE FALSE

StoredFavorite(id) == HasId(files, id) /\ RowOf(files, id).is_favorite

TaskGet(p) ==
    /\ status = "running"
    /\ p \in DOMAIN task
    /\ task[p].pc = "get"
    /\ \E get_fails \in BOOLEAN :
        task' = [task EXCEPT
                    ![p].pc = "upsert",
                    ![p].is_favorite =
                        FavoriteAfterGet(files, generate_file_id(p), get_fails),
                    ![p].seen_fav = StoredFavorite(generate_file_id(p))]
    /\ UNCHANGED <<root, disk, files, meta, status, result, delta, stats,
                   processed, events, hist, used, lim, pure>>

\* The row upsert_file binds from file_entry.
EntryRow(p) ==
    [id |-> generate_file_id(p), path |-> p, mtime |-> task[p].mtime,
     is_favorite |-> task[p].is_favorite, has_workflow |-> task[p].has_workflow]

\* Where the task goes once the record is saved: to the insert loop when
\* workflow_metadata is not empty, else to the Ok of the async block.
AfterUpsert(t) ==
    IF t.nrec > 0 THEN [t EXCEPT !.pc = "insert", !.i = 0]
                  ELSE [t EXCEPT !.pc = "stats", !.result = "ok"]

TaskUpsert(p) ==
    /\ status = "running"
    /\ p \in DOMAIN task
    /\ task[p].pc = "upsert"
    /\ files' = upsert_file(files, EntryRow(p))
    /\ meta' = Cascade(meta, Replaced(files, EntryRow(p)))
    /\ task' = [task EXCEPT ![p] = AfterUpsert(task[p])]
    /\ hist' = [hist EXCEPT !.wrote = TRUE]
    /\ UNCHANGED <<root, disk, status, result, delta, stats, processed, events,
                   used, lim, pure>>

\* upsert_file returns Err: the task returns "Database error".
TaskUpsertFails(p) ==
    /\ status = "running"
    /\ p \in DOMAIN task
    /\ task[p].pc = "upsert"
    /\ task' = [task EXCEPT ![p].pc = "stats", ![p].result = "err"]
    /\ hist' = Unquiet
    /\ UNCHANGED <<root, disk, files, meta, status, result, delta, stats,
                   processed, events, used, lim, pure>>

\* The WorkflowMetadata built for position i of workflow_metadata.
MetaRow(p, i) ==
    [file_id |-> generate_file_id(p), sampler_index |-> i, data |-> task[p].mtime]

\* An insert loop whose position never advances.
AfterInsertStuck(t) == t

\* Where the task goes after the insert at position i.
AfterInsert(t) ==
    IF t.i + 1 < t.nrec THEN [t EXCEPT !.i = t.i + 1]
                        ELSE [t EXCEPT !.i = t.i + 1, !.pc = "stats", !.result = "ok"]

TaskInsert(p) ==
    /\ status = "running"
    /\ p \in DOMAIN task
    /\ task[p].pc = "insert"
    /\ HasId(files, generate_file_id(p))
    /\ meta' = insert_workflow_metadata(meta, MetaRow(p, task[p].i))
    /\ task' = [task EXCEPT ![p] = AfterInsert(task[p])]
    /\ hist' = [hist EXCEPT !.wrote = TRUE]
    /\ UNCHANGED <<root, disk, files, status, result, delta, stats, processed,
                   events, used, lim, pure>>

\* insert_workflow_metadata returns Err (a store failure, or the foreign key
\* when the files row is gone): the error is printed and the loop goes on.
TaskInsertFails(p) ==
    /\ status = "running"
    /\ p \in DOMAIN task
    /\ task[p].pc = "insert"
    /\ task' = [task EXCEPT ![p] = [AfterInsert(task[p]) EXCEPT !.insert_failed = TRUE]]
    /\ hist' = Unquiet
    /\ UNCHANGED <<root, disk, files, meta, status, result, delta, stats,
                   processed, events, used, lim, pure>>

\* A match whose Err arm leaves the counters alone.
UpdateStatsErrDropped(s, t) ==
    IF t.result = "ok"
    THEN [s EXCEPT !.total_processed = @ + 1,
                   !.files_with_workflows = IF t.has_workflow THEN @ + 1 ELSE @,
                   !.metadata_extracted = IF t.has_workflow THEN @ + t.nrec ELSE @]
    ELSE s

\* A match that counts every task as processed, whatever its result.
UpdateStatsAllProcessed(s, t) == [s EXCEPT !.total_processed = @ + 1]

\* The match on the task's result, under the stats lock.
UpdateStats(s, t) ==
    IF t.result = "ok"
    THEN [s EXCEPT !.total_processed = @ + 1,
                   !.files_with_workflows = IF t.has_workflow THEN @ + 1 ELSE @,
                   !.metadata_extracted = IF t.has_workflow THEN @ + t.nrec ELSE @]
    ELSE [s EXCEPT !.failed_files = @ + 1]

TaskStats(p) ==
    /\ status = "running"
    /\ p \in DOMAIN task
    /\ task[p].pc = "stats"
    /\ stats' = UpdateStats(stats, task[p])
    /\ task' = [task EXCEPT ![p] = [NewTask EXCEPT !.pc = "progress",
                                                  !.result = task[p].result,
                                                  !.insert_failed = task[p].insert_failed]]
    /\ UNCHANGED <<root, disk, files, meta, status, result, delta, processed,
                   events, hist, used, lim, pure>>

\* The progress update, under the processed lock: the counter is incremented
\* and the callback is called with it before the lock is released.
TaskProgress(p) ==
    /\ status = "running"
    /\ p \in DOMAIN task
    /\ task[p].pc = "progress"
    /\ processed' = processed + 1
    /\ events' = Append(events, [current |-> processed + 1,
                                 total |-> total_files(delta)])
    /\ task' = [task EXCEPT ![p].pc = "done"]
    /\ UNCHANGED <<root, disk, files, meta, status, result, delta, stats, hist,
                   used, lim, pure>>

\* The for_each has returned: full_sync returns Ok(final_stats).
SyncEnd ==
    /\ status = "running"
    /\ \A p \in DOMAIN task : task[p].pc = "done"
    /\ status' = "done"
    /\ result' = "ok"
    /\ UNCHANGED <<root, disk, files, meta, delta, task, stats, processed,
                   events, hist, used, lim, pure>>

\* The caller has the result: the locals of the run are dropped.
SyncReturn ==
    /\ status = "done"
    /\ status' = "idle"
    /\ result' = "none"
    /\ delta' = EmptyDelta
    /\ task' = <<>>
    /\ stats' = NewStats
    /\ processed' = 0
    /\ events' = <<>>
    /\ UNCHANGED <<root, disk, files, meta, hist, used, lim, pure>>

-----------------------------------------------------------------------------
(* The disk, changed from outside the program                              *)

RunVars == <<status, result, delta, task, stats, processed, events, lim, pure>>

\* A disk change or a command happens, outside the instant full_sync returns.
Op ==
    /\ status = "idle"
    /\ used.ops < lim.ops
    /\ used' = [used EXCEPT !.ops = @ + 1]
    /\ hist' = Unquiet

CreateFile(p) ==
    /\ root
    /\ p \notin DOMAIN disk
    /\ p[1] \in lim.dirs
    /\ Cardinality(DOMAIN disk) < lim.files
    /\ \E t \in Times, c \in Contents :
        disk' = [q \in (DOMAIN disk) \cup {p} |-> IF q = p THEN DiskFile(t, c) ELSE disk[q]]
    /\ Op
    /\ UNCHANGED <<root, files, meta, RunVars>>

\* The file is written again: its mtime advances and its content may change.
WriteFile(p) ==
    /\ p \in DOMAIN disk
    /\ \E t \in Times, c \in Contents :
        /\ t > disk[p].mtime
        /\ disk' = [disk EXCEPT ![p] = DiskFile(t, c)]
    /\ Op
    /\ UNCHANGED <<root, files, meta, RunVars>>

RemovePath(d, p) == [q \in (DOMAIN d) \ {p} |-> d[q]]

RemoveFile(p) ==
    /\ p \in DOMAIN disk
    /\ disk' = RemovePath(disk, p)
    /\ Op
    /\ UNCHANGED <<root, files, meta, RunVars>>

\* The output directory is removed with all it holds, or made again.
RemoveRoot ==
    /\ root
    /\ root' = FALSE
    /\ disk' = <<>>
    /\ Op
    /\ UNCHANGED <<files, meta, RunVars>>

CreateRoot ==
    /\ ~root
    /\ root' = TRUE
    /\ Op
    /\ UNCHANGED <<disk, files, meta, RunVars>>

-----------------------------------------------------------------------------
(* commands.rs: the commands that change the store or the disk             *)

\* database::toggle_favorite on a row that exists.
toggle_favorite(tbl, id) ==
    {IF r.id = id THEN [r EXCEPT !.is_favorite = ~r.is_favorite] ELSE r : r \in tbl}

ToggleFavorite(id) ==
    /\ HasId(files, id)
    /\ files' = toggle_favorite(files, id)
    /\ Op
    /\ UNCHANGED <<root, disk, meta, RunVars>>

\* std::fs::rename(old, new): new takes the file of old, replacing what it held.
FsRename(d, old, new) ==
    [q \in ((DOMAIN d) \ {old}) \cup {new} |-> IF q = new THEN d[old] ELSE d[q]]

\* UPDATE files SET path = ? WHERE id = ?: refused by the UNIQUE constraint
\* on path when another row holds the new path.
UpdatePath(tbl, id, new) ==
    IF \E r \in tbl : r.id # id /\ r.path = new
    THEN tbl
    ELSE {IF r.id = id THEN [r EXCEPT !.path = new] ELSE r : r \in tbl}

\* rename_file: the file is renamed inside its directory, then its row's
\* path and name are updated (the id is left as it is).
RenameFile(id, new_name) ==
    /\ HasId(files, id)
    /\ LET old == RowOf(files, id).path
           new == <<old[1], new_name>>
       IN  /\ root
           /\ old \in DOMAIN disk
           /\ disk' = FsRename(disk, old, new)
           /\ \E db_fails \in BOOLEAN :
                files' = IF db_fails THEN files ELSE UpdatePath(files, id, new)
    /\ Op
    /\ UNCHANGED <<root, meta, RunVars>>

\* One round of the loop of move_files.
MoveOne(st, id, dir, db_fails) ==
    IF ~st.ok \/ ~HasId(st.files, id) THEN [st EXCEPT !.ok = FALSE]
    ELSE LET old == RowOf(st.files, id).path
             new == <<dir, old[2]>>
         IN  IF old \notin DOMAIN st.disk THEN [st EXCEPT !.ok = FALSE]
             ELSE IF db_fails THEN [st EXCEPT !.disk = FsRename(st.disk, old, new),
                                              !.ok = FALSE]
             ELSE [st EXCEPT !.disk = FsRename(st.disk, old, new),
                             !.files = UpdatePath(st.files, id, new),
                             !.ok = UpdatePath(st.files, id, new) # st.files
                                    \/ old = new]

RECURSIVE MoveLoop(_, _, _, _)
MoveLoop(st, ids, dir, fail_at) ==
    IF ids = <<>> THEN st
    ELSE MoveLoop(MoveOne(st, Head(ids), dir, fail_at = 1), Tail(ids), dir, fail_at - 1)

StoredIds == {r.id : r \in files}

MoveLists == {<<i>> : i \in StoredIds} \cup {<<i, j>> : i, j \in StoredIds}

\* move_files: each file of file_ids is moved into target_folder and its
\* row's path updated; the first error ends the loop.
MoveFiles(ids, dir) ==
    /\ root
    /\ \E fail_at \in 0..Len(ids) :
        \E st \in {MoveLoop([disk |-> disk, files |-> files, ok |-> TRUE],
                             ids, dir, fail_at)} :
            /\ (st.disk # disk \/ st.files # files)
            /\ disk' = st.disk
            /\ files' = st.files
    /\ Op
    /\ UNCHANGED <<root, meta, RunVars>>

\* delete_file (command): the file is removed from disk when it is there,
\* then the row is deleted; its metadata rows go with it (ON DELETE CASCADE).
DeleteFile(id) ==
    /\ HasId(files, id)
    /\ disk' = IF RowOf(files, id).path \in DOMAIN disk
               THEN RemovePath(disk, RowOf(files, id).path) ELSE disk
    /\ files' = delete_file(files, id)
    /\ meta' = Cascade(meta, {id})
    /\ Op
    /\ UNCHANGED <<root, RunVars>>

-----------------------------------------------------------------------------

\* The steps of a run of full_sync.
SyncStep ==
    \/ SyncBegin
    \/ \E p \in Paths : TaskProcess(p) \/ TaskProcessFails(p)
    \/ \E p \in Paths : TaskGet(p)
    \/ \E p \in Paths : TaskUpsert(p) \/ TaskUpsertFails(p)
    \/ \E p \in Paths : TaskInsert(p) \/ TaskInsertFails(p)
    \/ \E p \in Paths : TaskStats(p)
    \/ \E p \in Paths : TaskProgress(p)
    \/ SyncEnd
    \/ SyncReturn

\* The disk changing, and the commands that keep a row's path.
DiskStep ==
    \/ \E p \in Paths : CreateFile(p) \/ WriteFile(p) \/ RemoveFile(p)
    \/ RemoveRoot
    \/ CreateRoot
    \/ \E id \in StoredIds : ToggleFavorite(id)
    \/ \E id \in StoredIds : DeleteFile(id)

Next ==
    \/ SyncStep
    \/ DiskStep
    \/ \E id \in StoredIds, n \in Names : RenameFile(id, n)
    \/ \E ids \in MoveLists, d \in Dirs : MoveFiles(ids, d)

Spec == Init /\ [][Next]_vars

NextSync == SyncStep \/ DiskStep

SpecSync == InitSync /\ [][NextSync]_vars

\* The runs of full_sync with the workers scheduled fairly: as long as a task
\* can take a step or the for_each can return, one of them does.
InitLive ==
    /\ root = TRUE
    /\ disk = <<>>
    /\ files = {}
    /\ meta = {}
    /\ status = "idle"
    /\ result = "none"
    /\ delta = EmptyDelta
    /\ task = <<>>
    /\ stats = NewStats
    /\ processed = 0
    /\ events = <<>>
    /\ hist = NewHist
    /\ used = [ops |-> 0, runs |-> 0]
    /\ lim = [ops |-> LiveMaxOps, runs |-> LiveMaxRuns, files |-> MaxFiles, dirs |-> {1}]
    /\ pure = NoPure

\* A step of the run in progress: a step of one of its tasks, or its return.
RunStep ==
    \/ \E p \in Paths :
          \/ TaskProcess(p) \/ TaskProcessFails(p) \/ TaskGet(p)
          \/ TaskUpsert(p) \/ TaskUpsertFails(p)
          \/ TaskInsert(p) \/ TaskInsertFails(p)
          \/ TaskStats(p) \/ TaskProgress(p)
    \/ SyncEnd

SpecLive == InitLive /\ [][NextSync]_vars /\ WF_vars(RunStep)

-----------------------------------------------------------------------------
(* The diff of full_sync alone, over every pair of snapshots               *)

DeltaPaths == 1..NumDeltaPaths

\* The maps from some of the paths to an mtime.
Snapshots == UNION {[P -> Times] : P \in SUBSET DeltaPaths}

InitDelta ==
    /\ root = TRUE
    /\ disk = <<>>
    /\ files = {}
    /\ meta = {}
    /\ status = "idle"
    /\ result = "none"
    /\ delta = EmptyDelta
    /\ task = <<>>
    /\ stats = NewStats
    /\ processed = 0
    /\ events = <<>>
    /\ hist = NewHist
    /\ used = [ops |-> 0, runs |-> 0]
    /\ lim = [ops |-> 0, runs |-> 0, files |-> 0, dirs |-> {}]
    /\ pure \in [db : Snapshots, disk : Snapshots, out : {EmptyDelta}, done : {FALSE}]

\* full_sync computes to_delete, to_add and to_update from db_files and
\* disk_files.
ApplyDelta ==
    /\ ~pure.done
    /\ pure' = [pure EXCEPT !.out = ComputeDelta(pure.db, pure.disk), !.done = TRUE]
    /\ UNCHANGED <<root, disk, files, meta, status, result, delta, task, stats,
                   processed, events, hist, used, lim>>

SpecDelta == InitDelta /\ [][ApplyDelta]_vars

\* C1: the delta is to_delete = paths(D) \ paths(S), to_add = paths(S) \
\* paths(D), and a path of both is in to_update exactly when the disk mtime in
\* whole seconds is strictly greater than the stored mtime in whole seconds;
\* the three sets are pairwise disjoint; and D = {a: t0, b: t0}, S = {a: t1,
\* c: t2} with t1 a later whole second gives to_update = {a}, to_add = {c},
\* to_delete = {b}.
ClaimDelta ==
    pure.done =>
        LET D == pure.db
            S == pure.disk
            out == pure.out
        IN  /\ out.to_delete = (DOMAIN D) \ (DOMAIN S)
            /\ out.to_add = (DOMAIN S) \ (DOMAIN D)
            /\ out.to_update \subseteq (DOMAIN D) \cap (DOMAIN S)
            /\ \A p \in (DOMAIN D) \cap (DOMAIN S) :
                    p \in out.to_update <=>
                        (S[p] \div TicksPerSec) > (D[p] \div TicksPerSec)
            /\ out.to_delete \cap out.to_add = {}
            /\ out.to_delete \cap out.to_update = {}
            /\ out.to_add \cap out.to_update = {}
            /\ \A a, b, c \in DeltaPaths :
                    (/\ Cardinality({a, b, c}) = 3
                     /\ DOMAIN D = {a, b} /\ D[a] = D[b]
                     /\ DOMAIN S = {a, c}
                     /\ (S[a] \div TicksPerSec) > (D[a] \div TicksPerSec))
                    => out = [to_update |-> {a}, to_add |-> {c}, to_delete |-> {b}]

\* The diff has been computed for the snapshots of the example, the file a
\* having been written in a later whole second.
WitnessDelta ==
    /\ pure.done
    /\ DOMAIN pure.db = {1, 2}
    /\ DOMAIN pure.disk = {1, 3}
    /\ pure.db[1] = pure.db[2]
    /\ pure.disk[1] \div TicksPerSec > pure.db[1] \div TicksPerSec
    /\ pure.out.to_update = {1}


-----------------------------------------------------------------------------
(* parser.rs: the backward traversal find_source_node                      *)

max_hops == 20

SAMPLER_TYPES == {"KSampler"}
MODEL_LOADER_TYPES == {"CheckpointLoaderSimple"}
PROMPT_NODE_TYPES == {"CLIPTextEncode"}
LATENT_TYPES == {"EmptyLatentImage"}
PrimitiveTypes == {"Primitive", "PrimitiveNode"}

\* The input names the extract_* functions follow from a sampler node.
InputNames == {"model", "positive", "negative", "latent_image"}

\* stop_at_types of the call of find_source_node that follows input_name.
StopAt(input_name) ==
    CASE input_name = "model" -> MODEL_LOADER_TYPES
      [] input_name \in {"positive", "negative"} -> PROMPT_NODE_TYPES
      [] input_name = "latent_image" -> LATENT_TYPES

\* The keys of nodes_by_id, and the "no such node" of a missing or dangling
\* reference.
NodePool == <<"1", "2", "3", "4", "5">>
NodeIds == {NodePool[i] : i \in 1..NumNodes}
NoNode == "none"

\* The node types a graph is drawn from when input_name is followed: a
\* sampler, a pass-through node, a node that is neither (it is followed), and
\* the types the traversal stops at.
TypesFor(input_name) ==
    SAMPLER_TYPES \cup PrimitiveTypes \cup {"LoraLoader"} \cup StopAt(input_name)

\* The graphs: each node has a type and, for the followed input, the id of
\* its source node or none.
Graphs(input_name) ==
    [NodeIds -> [type : TypesFor(input_name), src : NodeIds \cup {NoNode}]]

\* get_input_source_node followed by the read of the source's "id".
get_input_source_node(g, id) == g[id].src

\* A loop that counts an iteration only when it moves to another node.
NextHopOnMove(f, moved) == IF moved THEN f.hops + 1 ELSE f.hops

\* `for _ in 0..max_hops`: every iteration is counted.
NextHop(f, moved) == f.hops + 1

\* The loop has run max_hops times: find_source_node falls out of it with None.
Exhausted(f) == IF f.st = "loop" /\ f.hops >= max_hops THEN [f EXCEPT !.st = "none"] ELSE f

\* One iteration of the loop of find_source_node at node f.cur.
find_source_node(f) ==
    LET node == f.g[f.cur]
        src == get_input_source_node(f.g, f.cur)
    IN  IF node.type \in StopAt(f.name)
        THEN [f EXCEPT !.st = "some", !.hops = NextHop(f, FALSE)]
        ELSE IF node.type \in PrimitiveTypes
        THEN Exhausted([f EXCEPT !.hops = NextHop(f, FALSE)])
        ELSE IF src # NoNode
        THEN Exhausted([f EXCEPT !.cur = src, !.hops = NextHop(f, src # f.cur)])
        ELSE [f EXCEPT !.st = "none", !.hops = NextHop(f, FALSE)]

\* A traversal about to start at a sampler node of some graph.
InitFind ==
    /\ root = TRUE
    /\ disk = <<>>
    /\ files = {}
    /\ meta = {}
    /\ status = "idle"
    /\ result = "none"
    /\ delta = EmptyDelta
    /\ task = <<>>
    /\ stats = NewStats
    /\ processed = 0
    /\ events = <<>>
    /\ hist = NewHist
    /\ used = [ops |-> 0, runs |-> 0]
    /\ lim = [ops |-> 0, runs |-> 0, files |-> 0, dirs |-> {}]
    /\ \E input_name \in InputNames, start \in NodeIds :
        \E g \in Graphs(input_name) :
            /\ g[start].type \in SAMPLER_TYPES
            /\ pure = [name |-> input_name, g |-> g, start |-> start,
                       cur |-> start, hops |-> 0, st |-> "loop"]

FindStep ==
    /\ pure.st = "loop"
    /\ pure' = find_source_node(pure)
    /\ UNCHANGED <<root, disk, files, meta, status, result, delta, task, stats,
                   processed, events, hist, used, lim>>

SpecFind == InitFind /\ [][FindStep]_vars

\* C15: for every graph, cyclic ones included, every iteration of
\* find_source_node is counted and the loop is over once max_hops iterations
\* were made; a node is returned only if it has one of the types to stop at,
\* so model_name is None when no such node is reached within the limit.
ClaimBoundedTraversal ==
    /\ [](/\ pure.hops <= max_hops
          /\ pure.st = "loop" => pure.hops < max_hops
          /\ pure.st = "some" => pure.g[pure.cur].type \in StopAt(pure.name))
    /\ [][pure'.hops = pure.hops + 1]_vars

\* The traversal of a graph whose sampler leads to a pass-through node that
\* references itself has ended with None after max_hops iterations.
WitnessBoundedTraversal ==
    /\ pure.st = "none"
    /\ pure.hops = max_hops
    /\ pure.name = "model"
    /\ \E n \in NodeIds :
          /\ pure.g[pure.start].src = n
          /\ pure.g[n].type \in PrimitiveTypes
          /\ pure.g[n].src = n

\* C18: when the followed edge of the sampler leads to a pass-through node
\* whose same-named edge leads to a node of a type to stop at, the traversal
\* returns that node.
ClaimPassThrough ==
    \A n, l \in NodeIds :
        (/\ pure.st # "loop"
         /\ pure.g[pure.start].src = n
         /\ pure.g[n].type \in PrimitiveTypes
         /\ pure.g[n].src = l
         /\ pure.g[l].type \in StopAt(pure.name))
        => (pure.st = "some" /\ pure.cur = l)

-----------------------------------------------------------------------------
(* parser.rs: JSON values, the two wire formats and the accessors          *)

\* A serde_json Value, as far as the parser looks into it: its kind and, for
\* a scalar, its text; for a reference array [source_id, slot] the source id.
None == "None"
NoValue == [k |-> "absent", v |-> ""]
JStr(x) == [k |-> "str", v |-> x]
JInt(x) == [k |-> "int", v |-> x]
JFloat(x) == [k |-> "float", v |-> x]
JRef(id) == [k |-> "ref", v |-> id]
JArr == [k |-> "array", v |-> ""]

\* Value::as_str, as_i64 and as_f64 on an Option<Value>.
as_str(x) == IF x.k = "str" THEN x.v ELSE None
as_i64(x) == IF x.k = "int" THEN x.v ELSE None
as_f64(x) == IF x.k \in {"int", "float"} THEN x.v ELSE None

\* The parameter names get_widget_value is asked for.
ParamNames == {"sampler_name", "scheduler", "cfg", "steps", "ckpt_name",
               "unet_name", "model_name", "text", "width", "height"}

NoParams == [n \in ParamNames |-> NoValue]

\* The node ids graphs are drawn from: two numbers whose numeric and textual
\* orders differ, and two ids that are not numbers.
GraphIdPool == {"2", "10", "a", "b"}

\* `id.parse::<i64>()`: the number an id denotes, if it denotes one.
IsNumeric(id) == id \in {"2", "10"}
ParseI64(id) == CASE id = "2" -> 2 [] id = "10" -> 10 [] OTHER -> 0

\* The place of an id in the order of strings.
Lexical(id) == CASE id = "10" -> 1 [] id = "2" -> 2 [] id = "a" -> 3 [] OTHER -> 4

\* The parameter values a sampler node and a model-loader node can carry.
SamplerParams ==
    {NoParams,
     [NoParams EXCEPT !["sampler_name"] = JStr("dpmpp_2m")],
     [NoParams EXCEPT !["sampler_name"] = JStr("euler"), !["cfg"] = JFloat("7.5"),
                      !["steps"] = JInt("20")]}

LoaderParams == {NoParams, [NoParams EXCEPT !["ckpt_name"] = JStr("sd15")]}

\* The logical graphs: for each node its type, its parameter values and the
\* source of its "model" edge.
LogicalNodes(ids) ==
    [type : SAMPLER_TYPES, params : SamplerParams, model : ids \cup {NoNode}]
    \cup [type : MODEL_LOADER_TYPES, params : LoaderParams, model : {NoNode}]
    \cup [type : {"LoraLoader"}, params : {NoParams}, model : ids \cup {NoNode}]

LogicalGraphs ==
    UNION {[ids -> LogicalNodes(ids)] :
              ids \in {i \in SUBSET GraphIdPool :
                          Cardinality(i) >= 1 /\ Cardinality(i) <= MaxGraphNodes}}

\* Format B: every key is a node id; the node body has class_type and inputs,
\* which hold the scalars by name and the edges as [source_id, slot].
EncodeAPI(L) ==
    [format |-> "API",
     links_map |-> <<>>,
     nodes_by_id |->
        [id \in DOMAIN L |->
            [type |-> L[id].type,
             inputs |-> [n \in ParamNames \cup InputNames |->
                            IF n \in ParamNames THEN L[id].params[n]
                            ELSE IF n = "model" /\ L[id].model # NoNode
                                 THEN JRef(L[id].model)
                                 ELSE NoValue],
             properties |-> NoParams,
             widgets_values |-> FALSE]]]

\* build_link_map: a link whose source id is not an integer is left out.
build_link_map(L) ==
    [id \in {i \in DOMAIN L : L[i].model # NoNode /\ IsNumeric(L[i].model)} |->
        L[id].model]

\* Format A: a nodes array and a links array.  The edge of a node is an entry
\* of its inputs array naming a link (here the link is named after the node
\* it enters); the scalars are in properties or in the widgets_values array.
EncodeUI(L, carrier) ==
    [format |-> "UI",
     links_map |-> build_link_map(L),
     nodes_by_id |->
        [id \in DOMAIN L |->
            [type |-> L[id].type,
             inputs |-> [n \in ParamNames \cup InputNames |->
                            IF n = "model" /\ L[id].model # NoNode
                            THEN JRef(id) ELSE NoValue],
             properties |-> IF carrier = "properties" THEN L[id].params ELSE NoParams,
             widgets_values |-> (carrier = "widgets_values"
                                 /\ L[id].params # NoParams)]]]

\* get_node_type: the "type" of a format A node, the "class_type" of a format
\* B node.
get_node_type(doc, id) == doc.nodes_by_id[id].type

\* get_input_source_node, format A: the input named input_name, its link, the
\* source id of the link in links_map, the node of that id.
SourceUI(doc, id, input_name) ==
    LET link == doc.nodes_by_id[id].inputs[input_name]
    IN  IF link.k = "ref" /\ link.v \in DOMAIN doc.links_map
           /\ doc.links_map[link.v] \in DOMAIN doc.nodes_by_id
        THEN doc.links_map[link.v]
        ELSE NoNode

\* get_input_source_node, format B: inputs[input_name] = [source_id, slot].
SourceAPI(doc, id, input_name) ==
    LET input_ref == doc.nodes_by_id[id].inputs[input_name]
    IN  IF input_ref.k = "ref" /\ input_ref.v \in DOMAIN doc.nodes_by_id
        THEN input_ref.v
        ELSE NoNode

\* The graph find_source_node walks when it follows input_name.
GraphView(doc, input_name) ==
    [id \in DOMAIN doc.nodes_by_id |->
        [type |-> get_node_type(doc, id),
         src |-> IF doc.format = "UI" THEN SourceUI(doc, id, input_name)
                                      ELSE SourceAPI(doc, id, input_name)]]

\* get_widget_value: format A looks in properties and falls back to the whole
\* widgets_values array; format B reads inputs[param_name].
get_widget_value(doc, id, param_name) ==
    LET node == doc.nodes_by_id[id]
    IN  IF doc.format = "UI"
        THEN IF node.properties[param_name] # NoValue THEN node.properties[param_name]
             ELSE IF node.widgets_values THEN JArr
             ELSE NoValue
        ELSE node.inputs[param_name]

RECURSIVE Traverse(_)
\* The loop of find_source_node, run to its end.
Traverse(f) == IF f.st = "loop" THEN Traverse(find_source_node(f)) ELSE f

\* The node find_source_node returns from start_node_id, or none.
SourceNode(doc, start_node_id, input_name) ==
    LET f == Traverse([name |-> input_name, g |-> GraphView(doc, input_name),
                       start |-> start_node_id, cur |-> start_node_id,
                       hops |-> 0, st |-> "loop"])
    IN  IF f.st = "some" THEN f.cur ELSE NoNode

\* a.or_else(|| b): the first value that is there.
OrElse(a, b) == IF a # NoValue THEN a ELSE b

extract_model(doc, id) ==
    LET model_node == SourceNode(doc, id, "model")
    IN  IF model_node = NoNode THEN None
        ELSE as_str(OrElse(get_widget_value(doc, model_node, "ckpt_name"),
                    OrElse(get_widget_value(doc, model_node, "unet_name"),
                           get_widget_value(doc, model_node, "model_name"))))

\* One side of extract_prompts, joined: the text of the prompt node found
\* along input_name, or the empty string.
extract_prompt(doc, id, input_name) ==
    LET prompt_node == SourceNode(doc, id, input_name)
    IN  IF prompt_node = NoNode THEN ""
        ELSE IF as_str(get_widget_value(doc, prompt_node, "text")) = None THEN ""
        ELSE as_str(get_widget_value(doc, prompt_node, "text"))

\* A pair built from whichever of the two values is there.
extract_dimensions_each(doc, id) ==
    LET latent_node == SourceNode(doc, id, "latent_image")
    IN  IF latent_node = NoNode THEN <<None, None>>
        ELSE <<as_i64(get_widget_value(doc, latent_node, "width")),
               as_i64(get_widget_value(doc, latent_node, "height"))>>

\* extract_dimensions: the pair (width, height) of the size node found along
\* latent_image when both are integers, else (None, None).
extract_dimensions(doc, id) ==
    LET latent_node == SourceNode(doc, id, "latent_image")
        width == IF latent_node = NoNode THEN None
                 ELSE as_i64(get_widget_value(doc, latent_node, "width"))
        height == IF latent_node = NoNode THEN None
                  ELSE as_i64(get_widget_value(doc, latent_node, "height"))
    IN  IF width # None /\ height # None THEN <<width, height>> ELSE <<None, None>>

\* process_sampler: the ParsedWorkflow of one sampler node.
process_sampler(doc, id) ==
    [model_name |-> extract_model(doc, id),
     sampler_name |-> as_str(get_widget_value(doc, id, "sampler_name")),
     scheduler |-> as_str(get_widget_value(doc, id, "scheduler")),
     positive_prompt |-> extract_prompt(doc, id, "positive"),
     negative_prompt |-> extract_prompt(doc, id, "negative"),
     width |-> extract_dimensions(doc, id)[1],
     height |-> extract_dimensions(doc, id)[2],
     cfg |-> as_f64(get_widget_value(doc, id, "cfg")),
     steps |-> as_i64(get_widget_value(doc, id, "steps"))]

SamplerIds(doc) ==
    {id \in DOMAIN doc.nodes_by_id : get_node_type(doc, id) \in SAMPLER_TYPES}

\* A sort of the sampler nodes by the text of their ids.
SortKeyLexical(id) == Lexical(id)

\* The key of sort_by_key: `id.parse::<i64>().unwrap_or(0)`.
SortKey(id) == ParseI64(id)

\* find_sampler_nodes: the sampler ids in an order the stable sort can give.
\* The ids come out of the HashMap nodes_by_id in an order that differs from
\* one map to the next, and the sort keeps that order among equal keys.
find_sampler_nodes(doc) ==
    LET n == Cardinality(SamplerIds(doc))
    IN  {o \in [1..n -> SamplerIds(doc)] :
            /\ \A i, j \in 1..n : i # j => o[i] # o[j]
            /\ \A i, j \in 1..n : i < j => SortKey(o[i]) <= SortKey(o[j])}

\* parse: process_sampler over the sampler nodes in the order o.
parse(doc, o) == [i \in 1..Len(o) |-> process_sampler(doc, o[i])]

\* The WorkflowMetadata rows full_sync builds from the parsed records: the
\* position is the sampler_index and both prompts are wrapped in Some.
WorkflowRows(recs) ==
    [i \in 1..Len(recs) |->
        [sampler_index |-> i - 1,
         model_name |-> recs[i].model_name,
         sampler_name |-> recs[i].sampler_name,
         scheduler |-> recs[i].scheduler,
         cfg |-> recs[i].cfg,
         steps |-> recs[i].steps,
         positive_prompt |-> recs[i].positive_prompt,
         negative_prompt |-> recs[i].negative_prompt,
         width |-> recs[i].width,
         height |-> recs[i].height]]

-----------------------------------------------------------------------------
(* scanner.rs: the container, and the extraction applied to one graph      *)

\* The text of a chunk: JSON that parses to the value doc, or not JSON.
JsonText(doc) == [valid |-> TRUE, value |-> doc]
BadText(doc) == [valid |-> FALSE, value |-> doc]
NoText == [valid |-> FALSE, value |-> <<>>]

TextChunk(keyword, text) == [tag |-> "tEXt", keyword |-> keyword, text |-> text]
OtherChunk(tag) == [tag |-> tag, keyword |-> "", text |-> NoText]

\* The lower-cased keyword contains "workflow" or "prompt".
KeywordMatches(keyword) == keyword \in {"workflow", "Workflow", "prompt"}

\* The containers a document is put in: one free-text chunk keyed "workflow";
\* the chunk among others under another spelling of a keyword; a text that is
\* not JSON; a file without the signature.
Containers(doc) ==
    {[sig_ok |-> TRUE, chunks |-> <<TextChunk("workflow", JsonText(doc))>>],
     [sig_ok |-> TRUE, chunks |-> <<OtherChunk("IHDR"), TextChunk("comment", BadText(doc)),
                                    TextChunk("Workflow", JsonText(doc)), OtherChunk("IEND")>>],
     [sig_ok |-> TRUE, chunks |-> <<TextChunk("prompt", BadText(doc))>>],
     [sig_ok |-> FALSE, chunks |-> <<TextChunk("workflow", JsonText(doc))>>]}

RECURSIVE FirstWorkflowText(_)
\* The chunk loop of extract_png_workflow.
FirstWorkflowText(chunks) ==
    IF chunks = <<>> THEN <<>>
    ELSE IF Head(chunks).tag = "tEXt" /\ KeywordMatches(Head(chunks).keyword)
    THEN <<Head(chunks).text>>
    ELSE FirstWorkflowText(Tail(chunks))

\* extract_png_workflow: the text found, if any, as a sequence of length <= 1.
extract_png_workflow(container) ==
    IF container.sig_ok THEN FirstWorkflowText(container.chunks) ELSE <<>>

\* extract_workflow_from_file of a .png file, the sampler nodes being taken
\* in the order o when the text parses.
extract_workflow_from_file(container, o) ==
    LET found == extract_png_workflow(container)
    IN  IF found = <<>> THEN [has_workflow |-> FALSE, records |-> <<>>]
        ELSE IF ~found[1].valid THEN [has_workflow |-> TRUE, records |-> <<>>]
        ELSE [has_workflow |-> TRUE, records |-> parse(found[1].value, o)]

\* A logical graph, the carrier of the scalars in its format A encoding and
\* the container its format B encoding is stored in.
InitParse ==
    /\ root = TRUE
    /\ disk = <<>>
    /\ files = {}
    /\ meta = {}
    /\ status = "idle"
    /\ result = "none"
    /\ delta = EmptyDelta
    /\ task = <<>>
    /\ stats = NewStats
    /\ processed = 0
    /\ events = <<>>
    /\ hist = NewHist
    /\ used = [ops |-> 0, runs |-> 0]
    /\ lim = [ops |-> 0, runs |-> 0, files |-> 0, dirs |-> {}]
    /\ \E L \in LogicalGraphs, carrier \in {"properties", "widgets_values"} :
        \E container \in Containers(EncodeAPI(L)) :
            pure = [L |-> L, carrier |-> carrier, container |-> container,
                    st |-> "start", order |-> <<>>, ui |-> <<>>, api |-> <<>>,
                    again |-> <<>>, ingest |-> [has_workflow |-> FALSE, records |-> <<>>],
                    rows |-> <<>>]

\* The extractor is applied to the format A encoding, twice to the format B
\* encoding, and to the container; the rows to store are built.
ParseStep ==
    /\ pure.st = "start"
    /\ \E oA \in find_sampler_nodes(EncodeUI(pure.L, pure.carrier)),
          oB \in find_sampler_nodes(EncodeAPI(pure.L)),
          oB2 \in find_sampler_nodes(EncodeAPI(pure.L)) :
        LET ingest == extract_workflow_from_file(pure.container, oB)
        IN  pure' = [pure EXCEPT !.st = "done",
                                 !.order = oB,
                                 !.ui = parse(EncodeUI(pure.L, pure.carrier), oA),
                                 !.api = parse(EncodeAPI(pure.L), oB),
                                 !.again = parse(EncodeAPI(pure.L), oB2),
                                 !.ingest = ingest,
                                 !.rows = WorkflowRows(ingest.records)]
    /\ UNCHANGED <<root, disk, files, meta, status, result, delta, task, stats,
                   processed, events, hist, used, lim>>

SpecParse == InitParse /\ [][ParseStep]_vars

\* C16: the format A and the format B encoding of a logical graph (here one
\* whose node ids are numbers) yield the same sequence of records.
ClaimFormatEquivalence ==
    (pure.st = "done" /\ \A id \in DOMAIN pure.L : IsNumeric(id))
    => pure.ui = pure.api

\* C17: a container with the single free-text chunk "workflow" holding the
\* format B JSON of one sampler node with cfg 7.5, steps 20 and sampler_name
\* euler yields exactly one record, with these three fields set and all the
\* other fields None.
ClaimContainerRoundTrip ==
    (/\ pure.st = "done"
     /\ pure.container = [sig_ok |-> TRUE,
                          chunks |-> <<TextChunk("workflow", JsonText(EncodeAPI(pure.L)))>>]
     /\ Cardinality(DOMAIN pure.L) = 1
     /\ \A id \in DOMAIN pure.L :
           /\ pure.L[id].type \in SAMPLER_TYPES
           /\ pure.L[id].model = NoNode
           /\ pure.L[id].params["sampler_name"] = JStr("euler")
           /\ pure.L[id].params["cfg"] = JFloat("7.5")
           /\ pure.L[id].params["steps"] = JInt("20"))
    => /\ pure.ingest.has_workflow
       /\ pure.rows = <<[sampler_index |-> 0, model_name |-> None,
                         sampler_name |-> "euler", scheduler |-> None,
                         cfg |-> "7.5", steps |-> "20",
                         positive_prompt |-> None, negative_prompt |-> None,
                         width |-> None, height |-> None]>>

\* C19: one record is produced per sampler node, a sampler with a smaller
\* numeric id comes before one with a larger numeric id, and the record at
\* position i is the one of the i-th sampler and is stored with sampler_index i.
ClaimSamplerOrder ==
    (pure.st = "done" /\ pure.ingest.has_workflow /\ pure.ingest.records # <<>>) =>
        LET samplers == {id \in DOMAIN pure.L : pure.L[id].type \in SAMPLER_TYPES}
            o == pure.order
        IN  /\ Len(pure.rows) = Cardinality(samplers)
            /\ Len(o) = Cardinality(samplers)
            /\ {o[i] : i \in 1..Len(o)} = samplers
            /\ \A i, j \in 1..Len(o) :
                  (i < j /\ IsNumeric(o[i]) /\ IsNumeric(o[j]))
                  => ParseI64(o[i]) < ParseI64(o[j])
            /\ \A i \in 1..Len(o) :
                  /\ pure.rows[i].sampler_index = i - 1
                  /\ pure.rows[i].sampler_name =
                        process_sampler(EncodeAPI(pure.L), o[i]).sampler_name
                  /\ pure.rows[i].model_name =
                        process_sampler(EncodeAPI(pure.L), o[i]).model_name

\* A graph with the sampler nodes 2 and 10 has been extracted from its
\* container: node 2 gave the first row.
WitnessSamplerOrder ==
    /\ pure.st = "done"
    /\ pure.ingest.has_workflow
    /\ pure.order = <<"2", "10">>
    /\ Len(pure.rows) = 2
    /\ pure.rows[2].sampler_index = 1

\* C20: two runs of the extractor on the same payload yield the same records
\* in the same order.
ClaimDeterministic ==
    pure.st = "done" => pure.again = pure.api

-----------------------------------------------------------------------------
(* Properties of full_sync and of the commands                             *)

\* The run has returned Ok(final_stats) and the caller is about to read it.
Completed == status = "done" /\ result = "ok"

Failed == {p \in DOMAIN task : task[p].result = "err"}
Succeeded == {p \in DOMAIN task : task[p].result = "ok"}
InsertFailed == {p \in DOMAIN task : task[p].insert_failed}

\* The parameter records stored for the file at path p.
StoredMeta(p) == {x \in meta : x.file_id = generate_file_id(p)}

\* The parameter records of the extraction the task of p holds.
Extracted(p) == {MetaRow(p, i) : i \in 0..(task[p].nrec - 1)}

\* C2: when a run has completed, the store holds no record whose path was in
\* to_delete.
ClaimDeleted ==
    Completed => \A p \in delta.to_delete : \A r \in files : r.path # p

\* C3: a record that is a favourite when its file is re-ingested is still a
\* favourite once full_sync has upserted the record of the same id.
ClaimFavoriteKept ==
    [][\A p \in DOMAIN task :
          (/\ p \in delta.to_update
           /\ task[p].pc = "upsert"
           /\ task[p].seen_fav
           /\ StoredFavorite(generate_file_id(p))
           /\ task'[p].pc # "upsert"
           /\ task'[p].result # "err")
          => \E r \in files' : r.id = generate_file_id(p) /\ r.is_favorite]_vars

\* C4: a run that starts right after a run that completed, with no disk change
\* and no command in between and no failure in either, finds nothing to add,
\* to update or to delete.
ClaimIdempotent ==
    [][(status = "idle" /\ hist.quiet /\ status' = "running" /\ hist'.quiet)
          => (delta' = EmptyDelta /\ task' = <<>>)]_vars

\* C5: every stored record's id is generate_file_id of its path, and two
\* records never share a path.
ClaimIdentity ==
    /\ \A r \in files : r.id = generate_file_id(r.path)
    /\ \A r1, r2 \in files : r1.path = r2.path => r1 = r2

\* C6: when the task of a re-ingested file returns Ok, the parameter records
\* stored for its file_id are exactly the records of the extraction just made.
ClaimParametersReplaced ==
    \A p \in DOMAIN task :
        (p \in delta.to_update /\ task[p].pc = "stats" /\ task[p].result = "ok")
        => StoredMeta(p) = Extracted(p)

ClaimRootError ==
    (status = "done" /\ ~hist.root_at_scan) => result = "err"

\* C9: when the read of the prior snapshot fails, full_sync returns an error
\* before the dispatch: no task exists, nothing is written to the store and
\* no progress event is emitted.
ClaimSnapshotFailure ==
    hist.snapshot_failed =>
        /\ status \in {"done", "idle"}
        /\ status = "done" => result = "err"
        /\ task = <<>>
        /\ ~hist.wrote
        /\ events = <<>>
        /\ processed = 0
        /\ stats = NewStats

\* full_sync has returned the error of the snapshot read while a file on disk
\* had no record in the store.
WitnessSnapshotFailure ==
    /\ hist.snapshot_failed
    /\ status = "done"
    /\ result = "err"
    /\ root
    /\ \E p \in DOMAIN disk : \A r \in files : r.path # p

\* C10: a file whose upsert or whose insert of a parameter record failed is
\* counted in failed_files and not in total_processed.
ClaimStoreFailureCounted ==
    Completed =>
        /\ stats.failed_files = Cardinality(Failed \cup InsertFailed)
        /\ stats.total_processed = Cardinality(Succeeded \ InsertFailed)

\* The processing set of the run, as the diff gave it.
ProcessingSet == delta.to_add \cup delta.to_update

\* The tasks whose result has been counted.
Counted == {p \in DOMAIN task : task[p].pc \in {"progress", "done"}}

\* C11: whatever the interleaving of the tasks, the events received so far
\* carry current = 1, 2, ... in this order and total = the size of the
\* processing set; there is one event per finished task, and one per path of
\* the processing set once the run has completed.
ClaimProgress ==
    /\ Len(events) = processed
    /\ \A i \in 1..Len(events) :
          /\ events[i].current = i
          /\ events[i].total = Cardinality(ProcessingSet)
    /\ Len(events) = Cardinality({p \in DOMAIN task : task[p].pc = "done"})
    /\ Completed => Len(events) = Cardinality(ProcessingSet)

\* A run over two files has completed and the sink has received both events.
WitnessProgress ==
    /\ Completed
    /\ Cardinality(ProcessingSet) = 2
    /\ Len(events) = 2
    /\ events[2].current = 2

\* C12: whatever the interleaving of the tasks, total_processed is the number
\* of counted tasks that returned Ok and failed_files the number that returned
\* Err (both zero when the run starts), and when the run has completed their
\* sum is the size of the processing set.
ClaimCounters ==
    /\ stats.total_processed = Cardinality(Counted \cap Succeeded)
    /\ stats.failed_files = Cardinality(Counted \cap Failed)
    /\ (status = "running" /\ Counted = {}) => stats = NewStats
    /\ Completed =>
          /\ stats.total_processed = Cardinality(Succeeded)
          /\ stats.failed_files = Cardinality(Failed)
          /\ stats.total_processed + stats.failed_files = Cardinality(ProcessingSet)

\* A run over two files has completed with one file counted in each counter.
WitnessCounters ==
    /\ Completed
    /\ Cardinality(ProcessingSet) = 2
    /\ stats.total_processed = 1
    /\ stats.failed_files = 1

\* How far a task has come.
PcRank(pc) ==
    CASE pc = "queued" -> 0
      [] pc = "get" -> 1
      [] pc = "upsert" -> 2
      [] pc = "insert" -> 3
      [] pc = "stats" -> 4
      [] pc = "progress" -> 5
      [] pc = "done" -> 6

\* C13: in a run the tasks are those of the paths of to_add and to_update, one
\* per path; a task never goes back (so its path is processed once), it has
\* finished when the run completes, and every row written to the store during
\* the run belongs to a path of the processing set.
ClaimOneTaskPerPath ==
    [][status' \in {"running", "done"} =>
          /\ (~hist'.snapshot_failed => DOMAIN task' = delta'.to_add \cup delta'.to_update)
          /\ delta'.to_add \cap delta'.to_update = {}
          /\ status = "running" =>
                /\ DOMAIN task' = DOMAIN task
                /\ \A p \in DOMAIN task : PcRank(task'[p].pc) >= PcRank(task[p].pc)
                /\ Cardinality({p \in DOMAIN task : task'[p].pc # task[p].pc}) <= 1
                /\ \A r \in files' \ files : r.path \in ProcessingSet
                /\ \A x \in meta' \ meta :
                      \E p \in ProcessingSet : x.file_id = generate_file_id(p)
          /\ (status' = "done" /\ result' = "ok") =>
                \A p \in delta'.to_add \cup delta'.to_update : task'[p].pc = "done"]_vars

\* A run has completed in which one file was new and another was changed.
WitnessOneTaskPerPath ==
    /\ Completed
    /\ delta.to_add # {}
    /\ delta.to_update # {}
    /\ \A p \in ProcessingSet : task[p].pc = "done"

-----------------------------------------------------------------------------
(* scanner.rs, parser.rs: the container as a byte stream and the text of    *)
(* its free-text chunk as JSON                                              *)

Digits == <<"0", "1", "2", "3", "4", "5", "6", "7", "8", "9">>
Upper == <<"A", "B", "C", "D", "E", "F", "G", "H", "I", "J", "K", "L", "M",
           "N", "O", "P", "Q", "R", "S", "T", "U", "V", "W", "X", "Y", "Z">>
Lower == <<"a", "b", "c", "d", "e", "f", "g", "h", "i", "j", "k", "l", "m",
           "n", "o", "p", "q", "r", "s", "t", "u", "v", "w", "x", "y", "z">>

IndexIn(seq, c) == CHOOSE i \in 1..Len(seq) : seq[i] = c

\* The byte of an ASCII character.
Code(c) ==
    CASE \E i \in 1..Len(Digits) : Digits[i] = c -> 47 + IndexIn(Digits, c)
      [] \E i \in 1..Len(Upper) : Upper[i] = c -> 64 + IndexIn(Upper, c)
      [] \E i \in 1..Len(Lower) : Lower[i] = c -> 96 + IndexIn(Lower, c)
      [] c = " " -> 32
      [] c = "\"" -> 34
      [] c = "," -> 44
      [] c = "." -> 46
      [] c = ":" -> 58
      [] c = "[" -> 91
      [] c = "]" -> 93
      [] c = "_" -> 95
      [] c = "{" -> 123
      [] c = "}" -> 125

Bytes(cs) == [i \in 1..Len(cs) |-> Code(cs[i])]

\* str::to_lowercase on ASCII bytes.
to_lowercase(bs) ==
    [i \in 1..Len(bs) |-> IF bs[i] >= 65 /\ bs[i] <= 90 THEN bs[i] + 32 ELSE bs[i]]

\* str::contains.
contains(hay, needle) ==
    \E i \in 0..(Len(hay) - Len(needle)) : SubSeq(hay, i + 1, i + Len(needle)) = needle

\* The eight bytes every PNG file starts with.
PngSignature == <<137, 80, 78, 71, 13, 10, 26, 10>>

tEXt == Bytes(<<"t", "E", "X", "t">>)
IHDR == Bytes(<<"I", "H", "D", "R">>)
IEND == Bytes(<<"I", "E", "N", "D">>)

KeyWorkflow == Bytes(<<"w", "o", "r", "k", "f", "l", "o", "w">>)
KeyPrompt == Bytes(<<"p", "r", "o", "m", "p", "t">>)
KeyWorkflowCapital == Bytes(<<"W", "o", "r", "k", "f", "l", "o", "w">>)
KeyComment == Bytes(<<"C", "o", "m", "m", "e", "n", "t">>)

\* `keyword.to_lowercase().contains("workflow") || ...contains("prompt")`.
KeywordHit(keyword) ==
    \/ contains(to_lowercase(keyword), KeyWorkflow)
    \/ contains(to_lowercase(keyword), KeyPrompt)

\* u32::from_be_bytes and its inverse (the lengths here stay below 2^16).
from_be_bytes(b) == ((b[1] * 256 + b[2]) * 256 + b[3]) * 256 + b[4]
to_be_bytes(n) == <<0, 0, (n \div 256) % 256, n % 256>>

\* The four check bytes that end a chunk; the reader never looks at them.
CrcBytes == <<0, 0, 0, 0>>

\* A chunk on the wire: length, type tag, payload, check bytes.
ChunkBytes(c) == to_be_bytes(Len(c.data)) \o c.tag \o c.data \o CrcBytes

RECURSIVE ChunksBytes(_)
ChunksBytes(cs) ==
    IF cs = <<>> THEN <<>> ELSE ChunkBytes(Head(cs)) \o ChunksBytes(Tail(cs))

\* The payload of a free-text chunk: keyword, a zero byte, the text.
TextData(keyword, text) == keyword \o <<0>> \o text

HasNull(data) == \E i \in 1..Len(data) : data[i] = 0

\* The position of the last zero byte.
NullPosLast(data) == CHOOSE i \in 1..Len(data) : data[i] = 0 /\ \A j \in (i + 1)..Len(data) : data[j] # 0

\* `data.iter().position(|&b| b == 0)`: the position of the first zero byte.
NullPos(data) == CHOOSE i \in 1..Len(data) : data[i] = 0 /\ \A j \in 1..(i - 1) : data[j] # 0

NoWorkflow == [found |-> FALSE, text |-> <<>>]

RECURSIVE ReadChunks(_, _)
\* The chunk loop of extract_png_workflow, pos bytes of s having been read.
\* Every read_exact that fails breaks out of the loop, except the read of
\* the check bytes of a free-text chunk, whose failure is ignored: the loop
\* goes on and the next read fails.
ReadChunks(s, pos) ==
    IF pos + 4 > Len(s) THEN NoWorkflow
    ELSE IF pos + 8 > Len(s) THEN NoWorkflow
    ELSE LET length == from_be_bytes(SubSeq(s, pos + 1, pos + 4))
             type_buf == SubSeq(s, pos + 5, pos + 8)
         IN  IF type_buf = tEXt
             THEN IF pos + 8 + length > Len(s) THEN NoWorkflow
                  ELSE LET data == SubSeq(s, pos + 9, pos + 8 + length)
                       IN  IF HasNull(data)
                              /\ KeywordHit(SubSeq(data, 1, NullPos(data) - 1))
                           THEN [found |-> TRUE,
                                 text |-> SubSeq(data, NullPos(data) + 1, Len(data))]
                           ELSE IF pos + 8 + length + 4 > Len(s)
                                THEN ReadChunks(s, Len(s))
                                ELSE ReadChunks(s, pos + 8 + length + 4)
             ELSE IF pos + 8 + length + 4 > Len(s) THEN NoWorkflow
                  ELSE ReadChunks(s, pos + 8 + length + 4)

\* extract_png_workflow on the bytes of a file: "err" when the signature
\* cannot be read, else the text found, if any.
extract_png_workflow_bytes(s) ==
    IF Len(s) < 8 THEN [res |-> "err", found |-> FALSE, text |-> <<>>]
    ELSE IF SubSeq(s, 1, 8) # PngSignature
    THEN [res |-> "ok", found |-> FALSE, text |-> <<>>]
    ELSE LET r == ReadChunks(s, 8)
         IN  [res |-> "ok", found |-> r.found, text |-> r.text]

-----------------------------------------------------------------------------
(* serde_json::from_str on the texts used here: objects, arrays, strings    *)
(* without escapes and unsigned integers, without white space               *)

QUOTE == Code("\"")

At(s, i) == IF i >= 1 /\ i <= Len(s) THEN s[i] ELSE -1

IsDigit(b) == b >= 48 /\ b <= 57

JsonFail == [ok |-> FALSE, val |-> [k |-> "null", v |-> <<>>], pos |-> 0]
JsonOk(k, v, pos) == [ok |-> TRUE, val |-> [k |-> k, v |-> v], pos |-> pos]

\* A string starting at the quote at i: it ends at the next quote.
ParseString(s, i) ==
    IF At(s, i) # QUOTE \/ ~\E j \in (i + 1)..Len(s) : s[j] = QUOTE THEN JsonFail
    ELSE LET j == CHOOSE j \in (i + 1)..Len(s) :
                      s[j] = QUOTE /\ \A m \in (i + 1)..(j - 1) : s[m] # QUOTE
         IN  JsonOk("str", SubSeq(s, i + 1, j - 1), j + 1)

\* The longest run of digits starting at i (a leading zero ends the number).
ParseNumber(s, i) ==
    LET j == CHOOSE j \in i..Len(s) :
                 /\ \A m \in i..j : IsDigit(s[m])
                 /\ ~IsDigit(At(s, j + 1))
    IN  IF At(s, i) = 48 THEN JsonOk("int", <<48>>, i + 1)
        ELSE JsonOk("int", SubSeq(s, i, j), j + 1)

RECURSIVE ParseValue(_, _), ParseMembers(_, _, _), ParseElements(_, _, _)

ParseValue(s, i) ==
    CASE At(s, i) = Code("{") ->
            IF At(s, i + 1) = Code("}") THEN JsonOk("obj", <<>>, i + 2)
            ELSE ParseMembers(s, i + 1, <<>>)
      [] At(s, i) = Code("[") ->
            IF At(s, i + 1) = Code("]") THEN JsonOk("arr", <<>>, i + 2)
            ELSE ParseElements(s, i + 1, <<>>)
      [] At(s, i) = QUOTE -> ParseString(s, i)
      [] IsDigit(At(s, i)) -> ParseNumber(s, i)
      [] OTHER -> JsonFail

\* The members of an object from position i on, acc being those read.
ParseMembers(s, i, acc) ==
    LET key == ParseString(s, i)
    IN  IF ~key.ok \/ At(s, key.pos) # Code(":") THEN JsonFail
        ELSE LET v == ParseValue(s, key.pos + 1)
             IN  IF ~v.ok THEN JsonFail
                 ELSE LET acc2 == Append(acc, [key |-> key.val.v, val |-> v.val])
                      IN  CASE At(s, v.pos) = Code(",") -> ParseMembers(s, v.pos + 1, acc2)
                            [] At(s, v.pos) = Code("}") -> JsonOk("obj", acc2, v.pos + 1)
                            [] OTHER -> JsonFail

\* The elements of an array from position i on.
ParseElements(s, i, acc) ==
    LET v == ParseValue(s, i)
    IN  IF ~v.ok THEN JsonFail
        ELSE LET acc2 == Append(acc, v.val)
             IN  CASE At(s, v.pos) = Code(",") -> ParseElements(s, v.pos + 1, acc2)
                   [] At(s, v.pos) = Code("]") -> JsonOk("arr", acc2, v.pos + 1)
                   [] OTHER -> JsonFail

\* serde_json::from_str: one value and nothing after it.
from_str(text) ==
    LET r == ParseValue(text, 1)
    IN  IF r.ok /\ r.pos = Len(text) + 1 THEN r ELSE JsonFail

\* Map::contains_key and Map::get (the last member with the key counts).
contains_key(obj, key) == \E i \in 1..Len(obj.v) : obj.v[i].key = key
get(obj, key) ==
    obj.v[CHOOSE i \in 1..Len(obj.v) :
              obj.v[i].key = key /\ \A j \in (i + 1)..Len(obj.v) : obj.v[j].key # key].val

KeyNodes == Bytes(<<"n", "o", "d", "e", "s">>)
KeyId == Bytes(<<"i", "d">>)
KeyType == Bytes(<<"t", "y", "p", "e">>)
KeyClassType == Bytes(<<"c", "l", "a", "s", "s", "_", "t", "y", "p", "e">>)

\* The sampler types, as bytes.
SamplerTypeBytes == {Bytes(<<"K", "S", "a", "m", "p", "l", "e", "r">>)}

\* HashMap::insert into nodes_by_id, kept as a sequence of [id, node].
MapInsert(m, id, node) ==
    SelectSeq(m, LAMBDA e : e.id # id) \o <<[id |-> id, node |-> node]>>

RECURSIVE NodesOfArray(_, _)
\* The loop over the nodes array of format A: a node that is not an object
\* or has no id is passed over, an id that is neither an integer nor a
\* string is an error.
NodesOfArray(nodes, m) ==
    IF nodes = <<>> THEN [ok |-> TRUE, nodes |-> m]
    ELSE LET node == Head(nodes)
         IN  IF node.k = "obj" /\ contains_key(node, KeyId)
             THEN IF get(node, KeyId).k \in {"int", "str"}
                  THEN NodesOfArray(Tail(nodes), MapInsert(m, get(node, KeyId).v, node))
                  ELSE [ok |-> FALSE, nodes |-> <<>>]
             ELSE NodesOfArray(Tail(nodes), m)

RECURSIVE NodesOfObject(_, _)
\* The loop over the members of format B: a value that is not an object is
\* passed over.
NodesOfObject(members, m) ==
    IF members = <<>> THEN [ok |-> TRUE, nodes |-> m]
    ELSE IF Head(members).val.k = "obj"
    THEN NodesOfObject(Tail(members), MapInsert(m, Head(members).key, Head(members).val))
    ELSE NodesOfObject(Tail(members), m)

\* ComfyUIWorkflowParser::new: the format and nodes_by_id, or an error.
new(value) ==
    IF value.k # "obj" THEN [ok |-> FALSE, format |-> "none", nodes |-> <<>>]
    ELSE IF contains_key(value, KeyNodes)
    THEN IF get(value, KeyNodes).k # "arr"
         THEN [ok |-> FALSE, format |-> "UI", nodes |-> <<>>]
         ELSE LET r == NodesOfArray(get(value, KeyNodes).v, <<>>)
              IN  [ok |-> r.ok, format |-> "UI", nodes |-> r.nodes]
    ELSE LET r == NodesOfObject(value.v, <<>>)
         IN  [ok |-> r.ok, format |-> "API", nodes |-> r.nodes]

\* get_node_type compared with SAMPLER_TYPES, as find_sampler_nodes does.
IsSamplerNode(format, node) ==
    LET key == IF format = "UI" THEN KeyType ELSE KeyClassType
    IN  /\ contains_key(node, key)
        /\ get(node, key).k = "str"
        /\ get(node, key).v \in SamplerTypeBytes

\* extract_workflow_metadata: the number of records parse returns, one for
\* each sampler node, or an error.
extract_workflow_metadata(workflow_str) ==
    LET json == from_str(workflow_str)
    IN  IF ~json.ok THEN [ok |-> FALSE, nrec |-> 0]
        ELSE LET parser == new(json.val)
             IN  IF ~parser.ok THEN [ok |-> FALSE, nrec |-> 0]
                 ELSE [ok |-> TRUE,
                       nrec |-> Len(SelectSeq(parser.nodes,
                                    LAMBDA e : IsSamplerNode(parser.format, e.node)))]

\* A format B graph with one sampler node.
TextGraph ==
    Bytes(<<"{", "\"", "2", "\"", ":", "{", "\"", "c", "l", "a", "s", "s", "_",
           "t", "y", "p", "e", "\"", ":", "\"", "K", "S", "a", "m", "p", "l",
           "e", "r", "\"", "}", "}">>)

\* A format A graph with one sampler node.
TextGraphUI ==
    Bytes(<<"{", "\"", "n", "o", "d", "e", "s", "\"", ":", "[", "{", "\"", "i",
           "d", "\"", ":", "2", ",", "\"", "t", "y", "p", "e", "\"", ":",
           "\"", "K", "S", "a", "m", "p", "l", "e", "r", "\"", "}", "]", "}">>)

\* A graph without a sampler node.
TextNoSampler ==
    Bytes(<<"{", "\"", "4", "\"", ":", "{", "\"", "c", "l", "a", "s", "s", "_",
           "t", "y", "p", "e", "\"", ":", "\"", "V", "A", "E", "D", "e", "c",
           "o", "d", "e", "\"", "}", "}">>)

\* An object without nodes.
TextEmptyObject ==
    Bytes(<<"{", "}">>)

\* A text that is not valid JSON: it stops in the middle.
TextCut ==
    Bytes(<<"{", "\"", "2", "\"", ":", "{", "\"", "c", "l", "a", "s", "s", "_",
           "t", "y", "p", "e", "\"">>)

\* A text that is not valid JSON: characters follow the value.
TextTrailing ==
    Bytes(<<"{", "}", "}">>)

\* Valid JSON that is not an object.
TextArray ==
    Bytes(<<"[", "{", "\"", "c", "l", "a", "s", "s", "_", "t", "y", "p", "e",
           "\"", ":", "\"", "K", "S", "a", "m", "p", "l", "e", "r", "\"", "}",
           "]">>)

\* Valid JSON that is not an object: a number.
TextNumber ==
    Bytes(<<"7">>)

\* An object whose "nodes" is not an array.
TextNodesNotArray ==
    Bytes(<<"{", "\"", "n", "o", "d", "e", "s", "\"", ":", "{", "\"", "2",
           "\"", ":", "{", "\"", "t", "y", "p", "e", "\"", ":", "\"", "K",
           "S", "a", "m", "p", "l", "e", "r", "\"", "}", "}", "}">>)

\* A nodes array with a node whose id is neither a number nor a string.
TextBadNodeId ==
    Bytes(<<"{", "\"", "n", "o", "d", "e", "s", "\"", ":", "[", "{", "\"", "i",
           "d", "\"", ":", "[", "2", "]", ",", "\"", "t", "y", "p", "e", "\"",
           ":", "\"", "K", "S", "a", "m", "p", "l", "e", "r", "\"", "}", "]",
           "}">>)

\* The texts that are not a graph the parser accepts.
UnparseableTexts ==
    {TextCut, TextTrailing, TextArray, TextNumber, TextNodesNotArray, TextBadNodeId}

Texts ==
    {TextGraph, TextGraphUI, TextNoSampler, TextEmptyObject} \cup UnparseableTexts

\* A match that reads a parser error as the absence of a graph.
WorkflowOfTextStrict(parsed) ==
    IF parsed.ok THEN [has_workflow |-> TRUE, nrec |-> parsed.nrec]
    ELSE [has_workflow |-> FALSE, nrec |-> 0]

\* The match of extract_workflow_from_file on the result of
\* extract_workflow_metadata: the three arms all report a graph.
WorkflowOfText(parsed) ==
    IF parsed.ok /\ parsed.nrec > 0 THEN [has_workflow |-> TRUE, nrec |-> parsed.nrec]
    ELSE [has_workflow |-> TRUE, nrec |-> 0]

\* extract_workflow_from_file on the bytes of a file named *.png.
extract_workflow_from_bytes(s) ==
    LET r == extract_png_workflow_bytes(s)
    IN  IF r.res = "ok" /\ r.found THEN WorkflowOfText(extract_workflow_metadata(r.text))
        ELSE [has_workflow |-> FALSE, nrec |-> 0]

\* The chunk lists a text is stored in under a keyword: the free-text chunk
\* alone, or after a header chunk and a comment chunk that holds a graph and
\* before the end chunk.
ChunkLists(keyword, text) ==
    {<<[tag |-> tEXt, data |-> TextData(keyword, text)]>>,
     <<[tag |-> IHDR, data |-> <<0, 1>>],
       [tag |-> tEXt, data |-> TextData(KeyComment, TextGraph)],
       [tag |-> tEXt, data |-> TextData(keyword, text)],
       [tag |-> IEND, data |-> <<>>]>>}

\* The signatures a file starts with: that of PNG and one with a wrong byte.
Signatures == {PngSignature, [PngSignature EXCEPT ![2] = 81]}

ChunkMatches(c) ==
    /\ c.tag = tEXt
    /\ HasNull(c.data)
    /\ KeywordHit(SubSeq(c.data, 1, NullPos(c.data) - 1))

RECURSIVE MatchEndFrom(_, _)
MatchEndFrom(cs, pos) ==
    IF cs = <<>> THEN 0
    ELSE IF ChunkMatches(Head(cs)) THEN pos + Len(ChunkBytes(Head(cs)))
    ELSE MatchEndFrom(Tail(cs), pos + Len(ChunkBytes(Head(cs))))

\* The number of bytes of the file up to the end of the first matching
\* chunk, its check bytes included.
MatchEnd(cs) == MatchEndFrom(cs, Len(PngSignature))

\* A file: a signature and a chunk list, cut after any number of bytes.
InitStream ==
    /\ root = TRUE
    /\ disk = <<>>
    /\ files = {}
    /\ meta = {}
    /\ status = "idle"
    /\ result = "none"
    /\ delta = EmptyDelta
    /\ task = <<>>
    /\ stats = NewStats
    /\ processed = 0
    /\ events = <<>>
    /\ hist = NewHist
    /\ used = [ops |-> 0, runs |-> 0]
    /\ lim = [ops |-> 0, runs |-> 0, files |-> 0, dirs |-> {}]
    /\ \E text \in Texts, keyword \in {KeyWorkflow, KeyWorkflowCapital, KeyPrompt},
          sig \in Signatures :
        \E chunks \in ChunkLists(keyword, text) :
            \E cut \in 0..Len(sig \o ChunksBytes(chunks)) :
                pure = [text |-> text, chunks |-> chunks, sig |-> sig, cut |-> cut,
                        stream |-> SubSeq(sig \o ChunksBytes(chunks), 1, cut),
                        st |-> "start", res |-> "none", has_workflow |-> FALSE,
                        nrec |-> 0]

\* One task of full_sync on the file, the store accepting its writes:
\* process_file returns Ok with what extract_workflow_from_file found, and
\* the result is counted.
StreamStep ==
    /\ pure.st = "start"
    /\ LET w == extract_workflow_from_bytes(pure.stream)
       IN  /\ pure' = [pure EXCEPT !.st = "done", !.res = "ok",
                                   !.has_workflow = w.has_workflow,
                                   !.nrec = w.nrec]
           /\ stats' = UpdateStats(stats, [NewTask EXCEPT !.result = "ok",
                                                          !.has_workflow = w.has_workflow,
                                                          !.nrec = w.nrec])
    /\ UNCHANGED <<root, disk, files, meta, status, result, delta, task,
                   processed, events, hist, used, lim>>

SpecStream == InitStream /\ [][StreamStep]_vars

\* C21: a file whose first matching free-text chunk is complete and holds a
\* text that is not valid JSON, not a JSON object or not of the expected
\* shape is ingested with has_workflow true and no parameter record, and is
\* counted as processed, not as failed.
ClaimGraphUnparseable ==
    (/\ pure.st = "done"
     /\ pure.sig = PngSignature
     /\ pure.cut >= MatchEnd(pure.chunks)
     /\ pure.text \in UnparseableTexts)
    => /\ pure.res = "ok"
       /\ pure.has_workflow
       /\ pure.nrec = 0
       /\ stats.failed_files = 0
       /\ stats.total_processed = 1
       /\ stats.files_with_workflows = 1

\* A whole file whose "nodes" is not an array has been ingested.
WitnessGraphUnparseable ==
    /\ pure.st = "done"
    /\ pure.sig = PngSignature
    /\ pure.cut = Len(pure.sig \o ChunksBytes(pure.chunks))
    /\ pure.text = TextNodesNotArray
    /\ pure.has_workflow
    /\ pure.nrec = 0
    /\ stats.total_processed = 1

\* C22: a file with a wrong signature, or cut at any byte before the end of
\* its first matching chunk, is ingested with has_workflow false and no
\* parameter record, and is not counted as failed.
ClaimContainerMalformed ==
    (/\ pure.st = "done"
     /\ \/ pure.sig # PngSignature
        \/ pure.cut < MatchEnd(pure.chunks))
    => /\ pure.res = "ok"
       /\ ~pure.has_workflow
       /\ pure.nrec = 0
       /\ stats.failed_files = 0

-----------------------------------------------------------------------------
(* scanner.rs: scan_directory over a directory tree                        *)

\* ScannerConfig::new: the extensions of the three media families.
image_extensions ==
    {Bytes(<<".", "p", "n", "g">>),
     Bytes(<<".", "j", "p", "g">>),
     Bytes(<<".", "j", "p", "e", "g">>),
     Bytes(<<".", "w", "e", "b", "p">>),
     Bytes(<<".", "b", "m", "p">>),
     Bytes(<<".", "g", "i", "f">>)}

\* The video extensions.
video_extensions ==
    {Bytes(<<".", "m", "p", "4">>),
     Bytes(<<".", "a", "v", "i">>),
     Bytes(<<".", "m", "o", "v">>),
     Bytes(<<".", "m", "k", "v">>),
     Bytes(<<".", "w", "e", "b", "m">>),
     Bytes(<<".", "f", "l", "v">>)}

\* The audio extensions.
audio_extensions ==
    {Bytes(<<".", "m", "p", "3">>),
     Bytes(<<".", "w", "a", "v">>),
     Bytes(<<".", "o", "g", "g">>),
     Bytes(<<".", "f", "l", "a", "c">>),
     Bytes(<<".", "m", "4", "a">>)}

\* The extensions scan_directory passes over first.
SidecarExtensions ==
    {Bytes(<<".", "j", "s", "o", "n">>),
     Bytes(<<".", "s", "q", "l", "i", "t", "e">>),
     Bytes(<<".", "d", "b">>)}

PrefixThumbnails == Bytes(<<"t", "h", "u", "m", "b", "n", "a", "i", "l", "s", "_", "c", "a", "c", "h", "e">>)
PrefixIndex == Bytes(<<"s", "m", "a", "r", "t", "g", "a", "l", "l", "e", "r", "y", "_", "c", "a", "c", "h", "e">>)
PrefixDot == Bytes(<<".">>)

\* The last component of the root path.
RootNames ==
    {Bytes(<<"o", "u", "t", "p", "u", "t">>),
     Bytes(<<".", "g", "a", "l", "l", "e", "r", "y">>),
     Bytes(<<"t", "h", "u", "m", "b", "n", "a", "i", "l", "s", "_", "c", "a", "c", "h", "e">>)}

\* The names of the directory below root.
DirNames ==
    {Bytes(<<"s", "u", "b">>),
     Bytes(<<".", "g", "i", "t">>),
     Bytes(<<"t", "h", "u", "m", "b", "n", "a", "i", "l", "s", "_", "c", "a", "c", "h", "e">>),
     Bytes(<<"s", "m", "a", "r", "t", "g", "a", "l", "l", "e", "r", "y", "_", "c", "a", "c", "h", "e", "_", "v", "2">>),
     Bytes(<<"a", "l", "b", "u", "m", ".", "p", "n", "g">>)}

\* The names of the files.
FileNames ==
    {Bytes(<<"a", ".", "p", "n", "g">>),
     Bytes(<<"b", ".", "P", "N", "G">>),
     Bytes(<<"c", "l", "i", "p", ".", "m", "p", "4">>),
     Bytes(<<"s", "o", "n", "g", ".", "f", "l", "a", "c">>),
     Bytes(<<"c", ".", "j", "s", "o", "n">>),
     Bytes(<<"i", "n", "d", "e", "x", ".", "d", "b">>),
     Bytes(<<"n", "o", "t", "e", "s", ".", "t", "x", "t">>),
     Bytes(<<"r", "e", "a", "d", "m", "e">>),
     Bytes(<<".", "h", ".", "p", "n", "g">>),
     Bytes(<<".", "p", "n", "g">>),
     Bytes(<<"t", "h", "u", "m", "b", "n", "a", "i", "l", "s", "_", "c", "a", "c", "h", "e", "_", "1", ".", "p", "n", "g">>),
     Bytes(<<"s", "m", "a", "r", "t", "g", "a", "l", "l", "e", "r", "y", "_", "c", "a", "c", "h", "e", ".", "j", "p", "g">>)}

\* str::starts_with.
starts_with(bs, prefix) ==
    Len(bs) >= Len(prefix) /\ SubSeq(bs, 1, Len(prefix)) = prefix

\* Path::extension: what follows the last dot of the name, when the name has
\* a dot that is not its first byte.
HasExtension(name) == \E i \in 2..Len(name) : name[i] = Code(".")
extension(name) ==
    LET i == CHOOSE i \in 2..Len(name) :
                 name[i] = Code(".") /\ \A j \in (i + 1)..Len(name) : name[j] # Code(".")
    IN  SubSeq(name, i + 1, Len(name))

\* `format!(".{}", ext.to_string_lossy().to_lowercase())`.
ext_str(name) == <<Code(".")>> \o to_lowercase(extension(name))

\* The negation of the filter_entry predicate.
Filtered(file_name) ==
    \/ starts_with(file_name, PrefixThumbnails)
    \/ starts_with(file_name, PrefixIndex)
    \/ starts_with(file_name, PrefixDot)

\* The test of the loop body on a path that is a file.
IsMedia(name) ==
    /\ HasExtension(name)
    /\ ext_str(name) \notin SidecarExtensions
    /\ ext_str(name) \in image_extensions \cup video_extensions \cup audio_extensions

\* The trees: a root with a file f and an entry d that is a directory, or a
\* link to one, holding a file c; a file is a regular file or a link to one.
Trees ==
    [root_name : RootNames,
     f : [name : FileNames, kind : {"file", "link_file"}],
     d : [name : DirNames, kind : {"dir", "link_dir"}],
     c : [name : FileNames, kind : {"file", "link_file"}]]

\* The entries below the root, each with the entry of its parent directory.
Entries(t) ==
    {[path |-> <<t.f.name>>, kind |-> t.f.kind, above |-> <<>>],
     [path |-> <<t.d.name>>, kind |-> t.d.kind, above |-> <<>>],
     [path |-> <<t.d.name, t.c.name>>, kind |-> t.c.kind, above |-> <<t.d>>]}

\* Path::is_file follows a link: true of a regular file and of a link to one.
is_file(e) == e.kind \in {"file", "link_file"}

\* The walker reaches an entry when the root passed the predicate and every
\* directory above the entry passed it and is a directory, not a link:
\* with follow_links(false) a link is yielded and not entered, and an entry
\* the predicate rejects is not yielded and, if a directory, not entered.
\* The root is the first entry the predicate is applied to.
Reached(t, e) ==
    /\ ~Filtered(t.root_name)
    /\ \A i \in 1..Len(e.above) :
        e.above[i].kind = "dir" /\ ~Filtered(e.above[i].name)

\* scan_directory: the paths pushed to files.
scan_directory(t) ==
    {e.path : e \in {x \in Entries(t) :
                        /\ Reached(t, x)
                        /\ ~Filtered(x.path[Len(x.path)])
                        /\ is_file(x)
                        /\ IsMedia(x.path[Len(x.path)])}}

InitWalk ==
    /\ root = TRUE
    /\ disk = <<>>
    /\ files = {}
    /\ meta = {}
    /\ status = "idle"
    /\ result = "none"
    /\ delta = EmptyDelta
    /\ task = <<>>
    /\ stats = NewStats
    /\ processed = 0
    /\ events = <<>>
    /\ hist = NewHist
    /\ used = [ops |-> 0, runs |-> 0]
    /\ lim = [ops |-> 0, runs |-> 0, files |-> 0, dirs |-> {}]
    /\ \E t \in Trees : pure = [tree |-> t, st |-> "start", found |-> {}]

WalkStep ==
    /\ pure.st = "start"
    /\ pure' = [pure EXCEPT !.st = "done", !.found = scan_directory(pure.tree)]
    /\ UNCHANGED <<root, disk, files, meta, status, result, delta, task, stats,
                   processed, events, hist, used, lim>>

SpecWalk == InitWalk /\ [][WalkStep]_vars

\* C23: no path scan_directory returns is a symbolic link, or lies below a
\* directory that is one.
ClaimNoSymlink ==
    pure.st = "done" =>
        \A e \in Entries(pure.tree) :
            e.path \in pure.found =>
                /\ e.kind = "file"
                /\ \A i \in 1..Len(e.above) : e.above[i].kind = "dir"

\* The names of the claim: a dot-prefixed hidden entry, a name beginning
\* with a reserved cache prefix.
Hidden(name) == starts_with(name, PrefixDot)
Reserved(name) == starts_with(name, PrefixThumbnails) \/ starts_with(name, PrefixIndex)

\* C24: a regular file below root, reached through directories only, is
\* returned if and only if its extension is a media extension and not a
\* sidecar extension, neither it nor a directory above it below root is
\* hidden, and no directory above it below root has a reserved name.
ClaimScanFilter ==
    pure.st = "done" =>
        \A e \in Entries(pure.tree) :
            (e.kind = "file" /\ \A i \in 1..Len(e.above) : e.above[i].kind = "dir")
            => (e.path \in pure.found
                <=> /\ IsMedia(e.path[Len(e.path)])
                    /\ ~Hidden(e.path[Len(e.path)])
                    /\ \A i \in 1..Len(e.above) :
                        ~Hidden(e.above[i].name) /\ ~Reserved(e.above[i].name))

-----------------------------------------------------------------------------
(* cache.rs: BoundedCache                                                   *)

CacheKeys == {"key1", "key2", "key3"}
CacheValues == {"value1", "value2"}

\* The fields max_size and ttl of the cache under study.
max_size == pure.max_size
ttl == CacheTtl

\* The entry `set` inserts.
NewItem(value, now) ==
    [value |-> value, inserted_at |-> now, last_accessed |-> now, access_count |-> 0]

\* A read that leaves the access count alone.
TouchUncounted(item, now) == [item EXCEPT !.last_accessed = now]

\* What `get` does to the entry it finds.
Touch(item, now) ==
    [item EXCEPT !.last_accessed = now, !.access_count = @ + 1]

\* HashMap::remove and HashMap::insert on the map kept as a function.
Without(c, keys) == [k \in (DOMAIN c) \ keys |-> c[k]]
With(c, key, item) == [k \in (DOMAIN c) \cup {key} |-> IF k = key THEN item ELSE c[k]]

\* A purge by the time of the last access.
ExpiredByAccess(c, now) == {k \in DOMAIN c : ~(now - c[k].last_accessed < ttl)}

\* The entries evict_expired does not retain.
Expired(c, now) == {k \in DOMAIN c : ~(now - c[k].inserted_at < ttl)}

evict_expired(c, now) == Without(c, Expired(c, now))

\* The keys with the oldest insertion.
OldestInserted(c) ==
    {k \in DOMAIN c : \A j \in DOMAIN c : c[k].inserted_at <= c[j].inserted_at}

\* The keys `min_by_key(last_accessed)` can return: those of the least
\* last_accessed; among several, the first in the iteration order of the
\* HashMap, which is any of them.
LruKeys(c) ==
    {k \in DOMAIN c : \A j \in DOMAIN c : c[k].last_accessed <= c[j].last_accessed}

\* The keys `set` evicts before inserting key: one of LruKeys when the cache
\* is at capacity and key is not resident (evict_lru removes nothing from an
\* empty map), else none.
Evictable(c, key) ==
    IF Cardinality(DOMAIN c) >= max_size /\ key \notin DOMAIN c /\ DOMAIN c # {}
    THEN {{e} : e \in LruKeys(c)}
    ELSE {{}}

\* BoundedCache::get: the cache after the call and what is returned.
CacheGetResult(c, key, now) ==
    LET live == evict_expired(c, now)
    IN  IF key \in DOMAIN live
        THEN [cache |-> [live EXCEPT ![key] = Touch(live[key], now)],
              hit |-> TRUE, value |-> live[key].value]
        ELSE [cache |-> live, hit |-> FALSE, value |-> None]

RECURSIVE SumOver(_, _)
SumOver(f, S) ==
    IF S = {} THEN 0
    ELSE LET k == CHOOSE k \in S : TRUE IN f[k] + SumOver(f, S \ {k})

\* BoundedCache::get_stats (the average age left out).
get_stats(c) ==
    [size |-> Cardinality(DOMAIN c),
     max_size |-> max_size,
     total_accesses |-> SumOver([k \in DOMAIN c |-> c[k].access_count], DOMAIN c)]

NoStats == [size |-> 0, max_size |-> 0, total_accesses |-> 0]

LastOp(op, key, hit, value, evicted, st) ==
    [op |-> op, key |-> key, hit |-> hit, value |-> value, evicted |-> evicted,
     stats |-> st]

\* An empty cache, and the record of the calls: their number, for each key
\* the number of the last call that set or read it, the time and the value
\* of its last set and the reads that found it since.
InitCache ==
    /\ root = TRUE
    /\ disk = <<>>
    /\ files = {}
    /\ meta = {}
    /\ status = "idle"
    /\ result = "none"
    /\ delta = EmptyDelta
    /\ task = <<>>
    /\ stats = NewStats
    /\ processed = 0
    /\ events = <<>>
    /\ hist = NewHist
    /\ used = [ops |-> 0, runs |-> 0]
    /\ lim = [ops |-> CacheMaxOps, runs |-> 0, files |-> 0, dirs |-> {}]
    /\ pure = [cache |-> <<>>, max_size |-> CacheMaxSize, now |-> 0, calls |-> 0,
               used_at |-> [k \in CacheKeys |-> 0],
               set_at |-> [k \in CacheKeys |-> 0],
               set_value |-> [k \in CacheKeys |-> None],
               reads |-> [k \in CacheKeys |-> 0],
               last |-> LastOp("none", None, FALSE, None, {}, NoStats)]

CacheCall ==
    /\ pure.calls < lim.ops
    /\ UNCHANGED <<root, disk, files, meta, status, result, delta, task, stats,
                   processed, events, hist, used, lim>>

\* cache.set(key, value)
CacheSet(key, value) ==
    /\ CacheCall
    /\ \E evicted \in Evictable(pure.cache, key) :
        pure' = [pure EXCEPT
                    !.cache = With(Without(pure.cache, evicted), key,
                                   NewItem(value, pure.now)),
                    !.calls = @ + 1,
                    !.used_at[key] = pure.calls + 1,
                    !.set_at[key] = pure.now,
                    !.set_value[key] = value,
                    !.reads[key] = 0,
                    !.last = LastOp("set", key, FALSE, None, evicted, NoStats)]

\* cache.get(&key)
CacheGet(key) ==
    /\ CacheCall
    /\ LET r == CacheGetResult(pure.cache, key, pure.now)
       IN  pure' = [pure EXCEPT
                       !.cache = r.cache,
                       !.calls = @ + 1,
                       !.used_at[key] = IF r.hit THEN pure.calls + 1 ELSE @,
                       !.reads[key] = IF r.hit THEN @ + 1 ELSE @,
                       !.last = LastOp("get", key, r.hit, r.value, {}, NoStats)]

\* cache.remove(&key)
CacheRemove(key) ==
    /\ CacheCall
    /\ pure' = [pure EXCEPT
                   !.cache = Without(pure.cache, {key}),
                   !.calls = @ + 1,
                   !.last = LastOp("remove", key, key \in DOMAIN pure.cache,
                                   IF key \in DOMAIN pure.cache
                                   THEN pure.cache[key].value ELSE None,
                                   {}, NoStats)]

\* cache.clear()
CacheClear ==
    /\ CacheCall
    /\ pure' = [pure EXCEPT !.cache = <<>>,
                            !.calls = @ + 1,
                            !.last = LastOp("clear", None, FALSE, None, {}, NoStats)]

\* cache.get_stats()
CacheStats ==
    /\ CacheCall
    /\ pure' = [pure EXCEPT !.calls = @ + 1,
                            !.last = LastOp("stats", None, FALSE, None, {},
                                            get_stats(pure.cache))]

\* Instant::now() has grown by one unit; between two calls it need not.
CacheTick ==
    /\ pure.now < CacheMaxTime
    /\ pure' = [pure EXCEPT !.now = @ + 1]
    /\ UNCHANGED <<root, disk, files, meta, status, result, delta, task, stats,
                   processed, events, hist, used, lim>>

NextCache ==
    \/ \E key \in CacheKeys, value \in CacheValues : CacheSet(key, value)
    \/ \E key \in CacheKeys : CacheGet(key)
    \/ \E key \in CacheKeys : CacheRemove(key)
    \/ CacheClear
    \/ CacheStats
    \/ CacheTick

SpecCache == InitCache /\ [][NextCache]_vars

\* The step is a set of a key that was not resident into a full cache.
SetIntoFull ==
    /\ pure'.last.op = "set"
    /\ pure'.calls = pure.calls + 1
    /\ pure'.last.key \notin DOMAIN pure.cache
    /\ Cardinality(DOMAIN pure.cache) = max_size

ClaimRecency ==
    [][SetIntoFull =>
        \A e \in pure'.last.evicted :
            \A j \in DOMAIN pure.cache : pure.used_at[e] <= pure.used_at[j]]_vars

\* C27: a get of a resident key returns the value last set when the time
\* since that set is below ttl, and None when it has reached ttl, whatever
\* the time of the last read; after the get no expired entry is resident and
\* no other entry has gone.
ClaimTtl ==
    [][(pure'.last.op = "get" /\ pure'.calls = pure.calls + 1)
        => /\ pure'.last.key \in DOMAIN pure.cache
                => IF pure.now - pure.set_at[pure'.last.key] < ttl
                   THEN /\ pure'.last.hit
                        /\ pure'.last.value = pure.set_value[pure'.last.key]
                   ELSE /\ ~pure'.last.hit
                        /\ pure'.last.value = None
           /\ DOMAIN pure'.cache
                = {k \in DOMAIN pure.cache : pure.now - pure.set_at[k] < ttl}]_vars

\* A get has returned None for a key that was read at the time it was set
\* for the last time and whose time to live has run out, and the purge of
\* the same get has left another entry.
WitnessTtl ==
    /\ pure.last.op = "get"
    /\ ~pure.last.hit
    /\ pure.reads[pure.last.key] > 0
    /\ pure.set_value[pure.last.key] # None
    /\ pure.now - pure.set_at[pure.last.key] >= ttl
    /\ pure.used_at[pure.last.key] > 0
    /\ pure.cache # <<>>

\* C28: get_stats reports the number of resident entries, the configured
\* capacity and the number of successful gets of the resident entries since
\* each was last set.
ClaimStats ==
    pure.last.op = "stats" =>
        /\ pure.last.stats.size = Cardinality(DOMAIN pure.cache)
        /\ pure.last.stats.max_size = CacheMaxSize
        /\ pure.last.stats.total_accesses
            = SumOver([k \in DOMAIN pure.cache |-> pure.reads[k]], DOMAIN pure.cache)

\* get_stats has reported two entries read twice in all.
WitnessStats ==
    /\ pure.last.op = "stats"
    /\ pure.last.stats.size = 2
    /\ pure.last.stats.total_accesses = 2

-----------------------------------------------------------------------------
(* security.rs: validate_path over a file system with a link               *)

\* The file system the paths are resolved in; a path is the sequence of its
\* components below "/".  "gone" does not exist.
FsEntries ==
    (<<"safe">> :> [kind |-> "dir", target |-> <<>>])
    @@ (<<"safe", "in.txt">> :> [kind |-> "file", target |-> <<>>])
    @@ (<<"safe", "link">> :> [kind |-> "link", target |-> <<"other">>])
    @@ (<<"safe", "sub">> :> [kind |-> "dir", target |-> <<>>])
    @@ (<<"other">> :> [kind |-> "dir", target |-> <<>>])
    @@ (<<"other", "out.txt">> :> [kind |-> "file", target |-> <<>>])

Components == {"safe", "other", "gone", "sub", "link", "in.txt", "out.txt", ".."}

\* The paths asked about and the directories that can be allowed.
AskedPaths == UNION {[1..n -> Components] : n \in 1..MaxDepth}
AllowedPool == {<<"safe">>, <<"other">>, <<"gone">>, <<"safe", "sub">>, <<"safe", "link">>}
AllowedLists == UNION {[1..n -> AllowedPool] : n \in 0..MaxAllowed}

CanonErr == [ok |-> FALSE, path |-> <<>>]

RECURSIVE Resolve(_, _)
\* Path::canonicalize: the components are resolved from the left, at being
\* the resolved directory reached so far.  ".." goes to the parent (the
\* parent of "/" is "/"), a link is replaced by its target, a missing entry
\* and a file that is not the last component are errors.
Resolve(at, rest) ==
    IF rest = <<>> THEN [ok |-> TRUE, path |-> at]
    ELSE IF Head(rest) = ".."
    THEN Resolve(IF at = <<>> THEN <<>> ELSE SubSeq(at, 1, Len(at) - 1), Tail(rest))
    ELSE LET p == Append(at, Head(rest))
         IN  IF p \notin DOMAIN FsEntries THEN CanonErr
             ELSE IF FsEntries[p].kind = "link"
             THEN Resolve(FsEntries[p].target, Tail(rest))
             ELSE IF FsEntries[p].kind = "file" /\ Tail(rest) # <<>> THEN CanonErr
             ELSE Resolve(p, Tail(rest))

canonicalize(path) == Resolve(<<>>, path)

\* Path::starts_with: a prefix of whole components.
path_starts_with(path, base) ==
    Len(base) <= Len(path) /\ SubSeq(path, 1, Len(base)) = base

RECURSIVE CheckAllowed(_, _)
\* The loop over allowed_dirs: an allowed directory that cannot be
\* canonicalized returns the error at once, by `?`.
CheckAllowed(canonical, allowed_dirs) ==
    IF allowed_dirs = <<>> THEN [ok |-> FALSE, path |-> <<>>]
    ELSE LET canonical_allowed == canonicalize(Head(allowed_dirs))
         IN  IF ~canonical_allowed.ok THEN [ok |-> FALSE, path |-> <<>>]
             ELSE IF path_starts_with(canonical, canonical_allowed.path)
             THEN [ok |-> TRUE, path |-> canonical]
             ELSE CheckAllowed(canonical, Tail(allowed_dirs))

validate_path(path, allowed_dirs) ==
    LET canonical == canonicalize(path)
    IN  IF ~canonical.ok THEN [ok |-> FALSE, path |-> <<>>]
        ELSE CheckAllowed(canonical.path, allowed_dirs)

InitValidate ==
    /\ root = TRUE
    /\ disk = <<>>
    /\ files = {}
    /\ meta = {}
    /\ status = "idle"
    /\ result = "none"
    /\ delta = EmptyDelta
    /\ task = <<>>
    /\ stats = NewStats
    /\ processed = 0
    /\ events = <<>>
    /\ hist = NewHist
    /\ used = [ops |-> 0, runs |-> 0]
    /\ lim = [ops |-> 0, runs |-> 0, files |-> 0, dirs |-> {}]
    /\ \E path \in AskedPaths, allowed_dirs \in AllowedLists :
        pure = [path |-> path, allowed_dirs |-> allowed_dirs, st |-> "start",
                out |-> [ok |-> FALSE, path |-> <<>>]]

ValidateStep ==
    /\ pure.st = "start"
    /\ pure' = [pure EXCEPT !.st = "done",
                            !.out = validate_path(pure.path, pure.allowed_dirs)]
    /\ UNCHANGED <<root, disk, files, meta, status, result, delta, task, stats,
                   processed, events, hist, used, lim>>

SpecValidate == InitValidate /\ [][ValidateStep]_vars

\* The canonical path lies inside the canonical form of an allowed directory.
InsideAllowed(path, allowed_dirs) ==
    /\ canonicalize(path).ok
    /\ \E i \in 1..Len(allowed_dirs) :
        /\ canonicalize(allowed_dirs[i]).ok
        /\ path_starts_with(canonicalize(path).path, canonicalize(allowed_dirs[i]).path)

\* C29: validate_path returns Ok, with the canonical path, if and only if
\* the canonical path lies inside the canonical form of at least one allowed
\* directory.
ClaimValidatePath ==
    pure.st = "done" =>
        /\ pure.out.ok <=> InsideAllowed(pure.path, pure.allowed_dirs)
        /\ pure.out.ok => pure.out.path = canonicalize(pure.path).path

-----------------------------------------------------------------------------
(* scanner.rs: full_sync interrupted by the exit of the process             *)

\* The runs of full_sync over one directory, none of whose store calls
\* fails, with the process able to exit during a run.
InitCrash ==
    /\ root = TRUE
    /\ disk = <<>>
    /\ files = {}
    /\ meta = {}
    /\ status = "idle"
    /\ result = "none"
    /\ delta = EmptyDelta
    /\ task = <<>>
    /\ stats = NewStats
    /\ processed = 0
    /\ events = <<>>
    /\ hist = NewHist
    /\ used = [ops |-> 0, runs |-> 0]
    /\ lim = [ops |-> CrashMaxOps, runs |-> CrashMaxRuns, files |-> MaxFiles,
              dirs |-> {1}]
    /\ pure = [crashed |-> FALSE]

\* The process exits during a run, between any two steps of its tasks: the
\* locals of full_sync are lost, the store keeps what was written.
Crash ==
    /\ status = "running"
    /\ status' = "idle"
    /\ result' = "none"
    /\ delta' = EmptyDelta
    /\ task' = <<>>
    /\ stats' = NewStats
    /\ processed' = 0
    /\ events' = <<>>
    /\ pure' = [crashed |-> TRUE]
    /\ UNCHANGED <<root, disk, files, meta, hist, used, lim>>

NextCrash ==
    \/ SyncBegin
    \/ \E p \in Paths : TaskProcess(p)
    \/ \E p \in Paths : TaskGet(p)
    \/ \E p \in Paths : TaskUpsert(p)
    \/ \E p \in Paths : TaskInsert(p)
    \/ \E p \in Paths : TaskStats(p)
    \/ \E p \in Paths : TaskProgress(p)
    \/ SyncEnd
    \/ SyncReturn
    \/ \E p \in Paths : CreateFile(p) \/ WriteFile(p)
    \/ Crash

SpecCrash == InitCrash /\ [][NextCrash]_vars

\* The parameter records of the file at path p as it is on disk.
OnDisk(p) ==
    {[file_id |-> generate_file_id(p), sampler_index |-> i, data |-> disk[p].mtime] :
        i \in 0..(disk[p].nrec - 1)}

\* C30: when a run has been interrupted and a later run, which saw the whole
\* disk, completes without a failing file, every file on disk has its record
\* and all of its parameter records in the store.
ClaimCrashRecovery ==
    (/\ pure.crashed
     /\ Completed
     /\ hist.quiet
     /\ stats.failed_files = 0)
    => \A p \in DOMAIN disk :
        /\ HasId(files, generate_file_id(p))
        /\ StoredMeta(p) = OnDisk(p)

-----------------------------------------------------------------------------
(* scanner.rs 398-481: the two locks of the par_iter closure               *)

LockMaxFiles == 3

Locks == {"stats", "processed"}

\* The holders of a lock: the tasks whose guard on it is alive.
Holders(l) == {p \in Paths : l \in pure.held[p]}

\* Mutex::lock returns when no other guard on the lock is alive.
CanLock(l) == Holders(l) = {}

\* A stats guard that lives to the end of the closure.
GuardsAfterArmKept(h) == h

\* The guards alive after the match on the result: stats_guard is a local of
\* the match arm and is dropped where the arm ends.
GuardsAfterArm(h) == h \ {"stats"}

\* A run over LockMaxFiles new files, with no guard alive.
InitLock ==
    /\ root = TRUE
    /\ disk \in [(CHOOSE S \in SUBSET Paths : Cardinality(S) = LockMaxFiles) ->
                    {DiskFile(1, c) : c \in {x \in Contents : x.nrec <= 1}}]
    /\ files = {}
    /\ meta = {}
    /\ status = "idle"
    /\ result = "none"
    /\ delta = EmptyDelta
    /\ task = <<>>
    /\ stats = NewStats
    /\ processed = 0
    /\ events = <<>>
    /\ hist = NewHist
    /\ used = [ops |-> 0, runs |-> 0]
    /\ lim = [ops |-> 0, runs |-> 1, files |-> LockMaxFiles, dirs |-> Dirs]
    /\ pure = [held |-> [p \in Paths |-> {}]]

\* `let mut stats_guard = stats.lock().unwrap();` in the arm of the match.
LockStats(p) ==
    /\ status = "running"
    /\ p \in DOMAIN task
    /\ task[p].pc = "stats"
    /\ CanLock("stats")
    /\ pure' = [pure EXCEPT !.held[p] = @ \cup {"stats"}]
    /\ task' = [task EXCEPT ![p].pc = "in_stats"]
    /\ UNCHANGED <<root, disk, files, meta, status, result, delta, stats,
                   processed, events, hist, used, lim>>

\* The counters are updated under the guard and the arm ends.
StatsArm(p) ==
    /\ status = "running"
    /\ p \in DOMAIN task
    /\ task[p].pc = "in_stats"
    /\ stats' = UpdateStats(stats, task[p])
    /\ pure' = [pure EXCEPT !.held[p] = GuardsAfterArm(@)]
    /\ task' = [task EXCEPT ![p] = [NewTask EXCEPT !.pc = "progress",
                                                  !.result = task[p].result,
                                                  !.insert_failed = task[p].insert_failed]]
    /\ UNCHANGED <<root, disk, files, meta, status, result, delta, processed,
                   events, hist, used, lim>>

\* `let mut processed_guard = processed.lock().unwrap(); *processed_guard += 1;`
LockProcessed(p) ==
    /\ status = "running"
    /\ p \in DOMAIN task
    /\ task[p].pc = "progress"
    /\ CanLock("processed")
    /\ pure' = [pure EXCEPT !.held[p] = @ \cup {"processed"}]
    /\ processed' = processed + 1
    /\ task' = [task EXCEPT ![p].pc = "callback"]
    /\ UNCHANGED <<root, disk, files, meta, status, result, delta, stats,
                   events, hist, used, lim>>

\* The callback is called with the counter, the processed guard alive.
Callback(p) ==
    /\ status = "running"
    /\ p \in DOMAIN task
    /\ task[p].pc = "callback"
    /\ events' = Append(events, [current |-> processed,
                                 total |-> total_files(delta)])
    /\ task' = [task EXCEPT ![p].pc = "end"]
    /\ UNCHANGED <<root, disk, files, meta, status, result, delta, stats,
                   processed, hist, used, lim, pure>>

\* The closure ends: every guard still alive is dropped.
EndClosure(p) ==
    /\ status = "running"
    /\ p \in DOMAIN task
    /\ task[p].pc = "end"
    /\ pure' = [pure EXCEPT !.held[p] = {}]
    /\ task' = [task EXCEPT ![p].pc = "done"]
    /\ UNCHANGED <<root, disk, files, meta, status, result, delta, stats,
                   processed, events, hist, used, lim>>

\* A step of one task of the closure.
TaskStepLock ==
    \/ \E p \in Paths : TaskProcess(p) \/ TaskProcessFails(p)
    \/ \E p \in Paths : TaskGet(p)
    \/ \E p \in Paths : TaskUpsert(p) \/ TaskUpsertFails(p)
    \/ \E p \in Paths : TaskInsert(p) \/ TaskInsertFails(p)
    \/ \E p \in Paths : LockStats(p)
    \/ \E p \in Paths : StatsArm(p)
    \/ \E p \in Paths : LockProcessed(p)
    \/ \E p \in Paths : Callback(p)
    \/ \E p \in Paths : EndClosure(p)

NextLock == SyncBegin \/ TaskStepLock \/ SyncEnd \/ SyncReturn

SpecLock == InitLock /\ [][NextLock]_vars

\* The task is inside the block_on, where the store is called.
InStoreCall(p) == p \in DOMAIN task /\ task[p].pc \in {"get", "upsert", "insert"}

\* The task is blocked in Mutex::lock.
Waiting(p) ==
    /\ p \in DOMAIN task
    /\ \/ task[p].pc = "stats" /\ ~CanLock("stats")
       \/ task[p].pc = "progress" /\ ~CanLock("processed")

\* C31: no task holds the stats lock and the processed lock at the same
\* time, no task is inside a store call while it holds either, a task that
\* waits for a lock holds none, and while the run has a task that is not
\* done some task can take a step (no interleaving deadlocks).
ClaimNoDeadlock ==
    /\ \A p \in Paths : pure.held[p] # Locks
    /\ \A p \in Paths : InStoreCall(p) => pure.held[p] = {}
    /\ \A p \in Paths : Waiting(p) => pure.held[p] = {}
    /\ (status = "running" /\ \E p \in DOMAIN task : task[p].pc # "done")
            => ENABLED TaskStepLock

\* One task is blocked on the processed lock while another holds it in the
\* callback.
WitnessNoDeadlock ==
    \E p, q \in DOMAIN task :
        /\ task[p].pc = "progress"
        /\ task[q].pc = "callback"
        /\ "processed" \in pure.held[q]
        /\ Waiting(p)

-----------------------------------------------------------------------------
(* scanner.rs 281-322: the size of the skip buffer, in 32 bits             *)

\* The values a byte of length_buf takes.
SkipBytes == {0, 1, 251, 252, 255}

Half == 65536

\* u32::from_be_bytes(length_buf), kept as two 16-bit halves.
u32_from_be_bytes(b) == [hi |-> b[1] * 256 + b[2], lo |-> b[3] * 256 + b[4]]

\* The sum x + 4 of the integers: 33 bits, carry being the bit above the u32.
Plus4(x) ==
    LET lo == x.lo + 4
        hi == x.hi + lo \div Half
    IN  [carry |-> hi \div Half, hi |-> hi % Half, lo |-> lo % Half]

\* `(length + 4) as usize`: the addition is done in u32 before the cast.  When
\* the sum does not fit, a build with overflow checks panics and a build
\* without them keeps the low 32 bits.
skip_size(length, overflow_checks) ==
    LET sum == Plus4(length)
    IN  IF sum.carry = 0 THEN [panic |-> FALSE, consumed |-> sum]
        ELSE IF overflow_checks THEN [panic |-> TRUE, consumed |-> Plus4([hi |-> 0, lo |-> 0])]
        ELSE [panic |-> FALSE, consumed |-> [sum EXCEPT !.carry = 0]]

InitSkip ==
    /\ root = TRUE
    /\ disk = <<>>
    /\ files = {}
    /\ meta = {}
    /\ status = "idle"
    /\ result = "none"
    /\ delta = EmptyDelta
    /\ task = <<>>
    /\ stats = NewStats
    /\ processed = 0
    /\ events = <<>>
    /\ hist = NewHist
    /\ used = [ops |-> 0, runs |-> 0]
    /\ lim = [ops |-> 0, runs |-> 0, files |-> 0, dirs |-> {}]
    /\ pure \in [length_buf : [1..4 -> SkipBytes], done : {FALSE},
                 out : {skip_size([hi |-> 0, lo |-> 0], FALSE)}]

\* The else branch of the chunk loop, for a chunk that is not tEXt.
SkipStep ==
    /\ ~pure.done
    /\ \E overflow_checks \in BOOLEAN :
        pure' = [pure EXCEPT
                    !.done = TRUE,
                    !.out = skip_size(u32_from_be_bytes(pure.length_buf),
                                      overflow_checks)]
    /\ UNCHANGED <<root, disk, files, meta, status, result, delta, task, stats,
                   processed, events, hist, used, lim>>

SpecSkip == InitSkip /\ [][SkipStep]_vars

\* C32: a chunk that is not a free-text chunk is skipped by consuming exactly
\* L + 4 bytes, L its 32-bit big-endian length, without abort and without
\* wrap-around, for every L including L >= 2^32 - 4.
ClaimChunkSkip ==
    pure.done =>
        /\ ~pure.out.panic
        /\ pure.out.consumed = Plus4(u32_from_be_bytes(pure.length_buf))

-----------------------------------------------------------------------------
(* scanner.rs 293-315: the first matching free-text chunk                   *)

FirstMaxChunks == 4

\* The chunks a file is made of here: a free-text chunk keyed "prompt", one
\* keyed "Workflow" whose text holds a zero byte, one keyed "Comment", one
\* without a zero byte, and a header chunk.
ChunkKinds ==
    {[tag |-> tEXt, keyword |-> KeyPrompt, nul |-> TRUE, text |-> Bytes(<<"a">>)],
     [tag |-> tEXt, keyword |-> KeyWorkflowCapital, nul |-> TRUE,
      text |-> Bytes(<<"b">>) \o <<0>> \o Bytes(<<"c">>)],
     [tag |-> tEXt, keyword |-> KeyComment, nul |-> TRUE, text |-> Bytes(<<"d">>)],
     [tag |-> tEXt, keyword |-> KeyPrompt, nul |-> FALSE, text |-> Bytes(<<"e">>)],
     [tag |-> IHDR, keyword |-> <<>>, nul |-> FALSE, text |-> <<1, 2>>]}

KindLists == UNION {[1..n -> ChunkKinds] : n \in 1..FirstMaxChunks}

\* The chunk as it is written in the file.
Wire(c) ==
    [tag |-> c.tag,
     data |-> IF c.nul THEN TextData(c.keyword, c.text) ELSE c.keyword \o c.text]

WireBytes(cs) == PngSignature \o ChunksBytes([i \in 1..Len(cs) |-> Wire(cs[i])])

InitFirst ==
    /\ root = TRUE
    /\ disk = <<>>
    /\ files = {}
    /\ meta = {}
    /\ status = "idle"
    /\ result = "none"
    /\ delta = EmptyDelta
    /\ task = <<>>
    /\ stats = NewStats
    /\ processed = 0
    /\ events = <<>>
    /\ hist = NewHist
    /\ used = [ops |-> 0, runs |-> 0]
    /\ lim = [ops |-> 0, runs |-> 0, files |-> 0, dirs |-> {}]
    /\ pure \in [chunks : KindLists, done : {FALSE},
                 out : {extract_png_workflow_bytes(<<>>)}]

\* extract_png_workflow on a whole file.
FirstStep ==
    /\ ~pure.done
    /\ pure' = [pure EXCEPT !.done = TRUE,
                            !.out = extract_png_workflow_bytes(WireBytes(pure.chunks))]
    /\ UNCHANGED <<root, disk, files, meta, status, result, delta, task, stats,
                   processed, events, hist, used, lim>>

SpecFirst == InitFirst /\ [][FirstStep]_vars

\* A free-text chunk with a zero byte whose lower-cased keyword contains
\* "workflow" or "prompt".
Candidate(c) == c.tag = tEXt /\ c.nul /\ KeywordHit(c.keyword)

FirstCandidate(cs) ==
    CHOOSE k \in 1..Len(cs) : Candidate(cs[k]) /\ \A j \in 1..(k - 1) : ~Candidate(cs[j])

\* C33: the payload is the text after the first zero byte of the first
\* free-text chunk, in stream order, whose lower-cased keyword contains
\* "workflow" or "prompt"; the chunks before it are passed over whole, and
\* the chunks after it do not change the result.
ClaimFirstMatch ==
    pure.done =>
        IF \E k \in 1..Len(pure.chunks) : Candidate(pure.chunks[k])
        THEN /\ pure.out.res = "ok"
             /\ pure.out.found
             /\ pure.out.text = pure.chunks[FirstCandidate(pure.chunks)].text
             /\ pure.out = extract_png_workflow_bytes(
                    WireBytes(SubSeq(pure.chunks, 1, FirstCandidate(pure.chunks))))
        ELSE pure.out.res = "ok" /\ ~pure.out.found

\* A chunk keyed "Comment" and a chunk without a zero byte are passed over,
\* the text of the chunk keyed "Workflow" is returned from its first zero
\* byte on, and the chunk keyed "prompt" after it is not looked at.
WitnessFirstMatch ==
    /\ pure.done
    /\ Len(pure.chunks) = 4
    /\ pure.chunks[1].keyword = KeyComment
    /\ ~pure.chunks[2].nul /\ pure.chunks[2].tag = tEXt
    /\ pure.chunks[3].keyword = KeyWorkflowCapital
    /\ pure.chunks[4].keyword = KeyPrompt /\ pure.chunks[4].nul
    /\ pure.out.found
    /\ pure.out.text = Bytes(<<"b">>) \o <<0>> \o Bytes(<<"c">>)

-----------------------------------------------------------------------------
(* parser.rs 402-425: extract_dimensions on a sampler and its size node    *)

\* What the size node carries under "width" and under "height": nothing, an
\* integer, a string of digits, a number with a fraction.
DimValues == {NoValue, JInt("512"), JInt("768"), JStr("512"), JFloat("512.5")}

\* A graph of two nodes: the sampler "2" and the node "10" of type src_type
\* that carries w and h; the sampler's latent_image input names "10" when
\* linked.  In format A the scalars are in properties or in widgets_values.
DimsDoc(format, carrier, w, h, src_type, linked) ==
    LET scalars == [n \in ParamNames |->
                        IF n = "width" THEN w ELSE IF n = "height" THEN h ELSE NoValue]
    IN  [format |-> format,
         links_map |-> IF format = "UI" /\ linked THEN [id \in {"2"} |-> "10"] ELSE <<>>,
         nodes_by_id |->
            [id \in {"2", "10"} |->
                IF id = "2"
                THEN [type |-> "KSampler",
                      inputs |-> [n \in ParamNames \cup InputNames |->
                                    IF n = "latent_image" /\ linked
                                    THEN JRef(IF format = "UI" THEN "2" ELSE "10")
                                    ELSE NoValue],
                      properties |-> NoParams,
                      widgets_values |-> FALSE]
                ELSE [type |-> src_type,
                      inputs |-> [n \in ParamNames \cup InputNames |->
                                    IF format = "API" /\ n \in ParamNames
                                    THEN scalars[n] ELSE NoValue],
                      properties |-> IF format = "UI" /\ carrier = "properties"
                                     THEN scalars ELSE NoParams,
                      widgets_values |-> (format = "UI" /\ carrier = "widgets_values")]]]

InitDims ==
    /\ root = TRUE
    /\ disk = <<>>
    /\ files = {}
    /\ meta = {}
    /\ status = "idle"
    /\ result = "none"
    /\ delta = EmptyDelta
    /\ task = <<>>
    /\ stats = NewStats
    /\ processed = 0
    /\ events = <<>>
    /\ hist = NewHist
    /\ used = [ops |-> 0, runs |-> 0]
    /\ lim = [ops |-> 0, runs |-> 0, files |-> 0, dirs |-> {}]
    /\ pure \in [format : {"API", "UI"}, carrier : {"properties", "widgets_values"},
                 w : DimValues, h : DimValues,
                 src_type : LATENT_TYPES \cup {"LoraLoader"}, linked : BOOLEAN,
                 done : {FALSE}, records : {<<>>}]

\* WorkflowParser::parse on the graph.
DimsStep ==
    /\ ~pure.done
    /\ LET doc == DimsDoc(pure.format, pure.carrier, pure.w, pure.h,
                          pure.src_type, pure.linked)
       IN  \E o \in find_sampler_nodes(doc) :
              pure' = [pure EXCEPT !.done = TRUE, !.records = parse(doc, o)]
    /\ UNCHANGED <<root, disk, files, meta, status, result, delta, task, stats,
                   processed, events, hist, used, lim>>

SpecDims == InitDims /\ [][DimsStep]_vars

\* C34: in every record produced, width and height are both set or both
\* None; a size node that declares only one of the two yields (None, None).
ClaimDimensions ==
    pure.done =>
        \A i \in 1..Len(pure.records) :
            /\ (pure.records[i].width = None) <=> (pure.records[i].height = None)
            /\ ((pure.w = NoValue) # (pure.h = NoValue))
                    => pure.records[i].width = None /\ pure.records[i].height = None

\* The sampler's size node, reached in format B, declares a width and no
\* height, and the record produced has neither.
WitnessDimensions ==
    /\ pure.done
    /\ pure.format = "API"
    /\ pure.linked
    /\ pure.src_type \in LATENT_TYPES
    /\ pure.w = JInt("512")
    /\ pure.h = NoValue
    /\ Len(pure.records) = 1
    /\ pure.records[1].width = None
    /\ pure.records[1].height = None

-----------------------------------------------------------------------------
(* scanner.rs 192-214: the prompt preview of process_file                  *)

\* The byte length above which the prompt is cut.
PreviewLimit == 150

\* How far before and after PreviewLimit the prompts drawn here reach.
PreviewSpan == 5

\* A string is a sequence of runs [count, width]: count characters whose
\* UTF-8 encoding takes width bytes each (1 for an ASCII character, 2 to 4
\* for the others).
RECURSIVE ByteLen(_)
\* String::len: the length in bytes.
ByteLen(runs) ==
    IF runs = <<>> THEN 0
    ELSE Head(runs).count * Head(runs).width + ByteLen(Tail(runs))

\* The prompts: lead ASCII characters, one character of width wide (none
\* when wide is 0), then tail ASCII characters.
Prompt(lead, wide, tail) ==
    <<[count |-> lead, width |-> 1],
      [count |-> IF wide = 0 THEN 0 ELSE 1, width |-> IF wide = 0 THEN 1 ELSE wide],
      [count |-> tail, width |-> 1]>>

\* The prefixes of a string that end between two characters: k whole runs
\* and j characters of the next.
Prefixes(runs) ==
    {<<>>} \cup UNION {{Append(SubSeq(runs, 1, k - 1), [runs[k] EXCEPT !.count = j]) :
                            j \in 1..runs[k].count} : k \in 1..Len(runs)}

\* `&s[..n]`: the characters of the first n bytes; the index panics when n
\* is not a character boundary (str::is_char_boundary).
SliceTo(runs, n) ==
    LET fit == {x \in Prefixes(runs) : ByteLen(x) = n}
    IN  IF fit # {}
        THEN [panic |-> FALSE, chars |-> CHOOSE x \in fit : TRUE]
        ELSE [panic |-> TRUE, chars |-> <<>>]

NoPreview == [panic |-> FALSE, some |-> FALSE, chars |-> <<>>, dots |-> FALSE]

\* prompt_preview of process_file, from the positive prompts of the records.
prompt_preview(prompts) ==
    IF prompts = <<>> THEN NoPreview
    ELSE LET first_prompt == prompts[1]
         IN  IF ByteLen(first_prompt) > PreviewLimit
             THEN LET cut == SliceTo(first_prompt, PreviewLimit)
                  IN  [panic |-> cut.panic, some |-> ~cut.panic, chars |-> cut.chars,
                       dots |-> ~cut.panic]
             ELSE [panic |-> FALSE, some |-> TRUE, chars |-> first_prompt, dots |-> FALSE]

InitPreview ==
    /\ root = TRUE
    /\ disk = <<>>
    /\ files = {}
    /\ meta = {}
    /\ status = "idle"
    /\ result = "none"
    /\ delta = EmptyDelta
    /\ task = <<>>
    /\ stats = NewStats
    /\ processed = 0
    /\ events = <<>>
    /\ hist = NewHist
    /\ used = [ops |-> 0, runs |-> 0]
    /\ lim = [ops |-> 0, runs |-> 0, files |-> 0, dirs |-> {}]
    /\ pure \in [nrec : 0..1,
                 lead : (PreviewLimit - PreviewSpan)..(PreviewLimit + 1),
                 wide : {0, 2, 3, 4},
                 tail : 0..2,
                 done : {FALSE}, out : {NoPreview}]

\* process_file on a file whose graph yields pure.nrec records, the first
\* with the prompt drawn.
PreviewStep ==
    /\ ~pure.done
    /\ pure' = [pure EXCEPT
                    !.done = TRUE,
                    !.out = prompt_preview([i \in 1..pure.nrec |->
                                Prompt(pure.lead, pure.wide, pure.tail)])]
    /\ UNCHANGED <<root, disk, files, meta, status, result, delta, task, stats,
                   processed, events, hist, used, lim>>

SpecPreview == InitPreview /\ [][PreviewStep]_vars

\* C35: process_file does not fail on any prompt; the preview is absent if
\* and only if no record was extracted; it is the first record's positive
\* prompt unchanged when that is at most 150 bytes long, and otherwise its
\* first 150 bytes followed by "...".
ClaimPreview ==
    pure.done =>
        LET prompt == Prompt(pure.lead, pure.wide, pure.tail)
        IN  /\ ~pure.out.panic
            /\ pure.out.some <=> pure.nrec > 0
            /\ (pure.nrec > 0 /\ ByteLen(prompt) <= PreviewLimit)
                    => pure.out.chars = prompt /\ ~pure.out.dots
            /\ (pure.nrec > 0 /\ ByteLen(prompt) > PreviewLimit)
                    => ByteLen(pure.out.chars) = PreviewLimit /\ pure.out.dots

-----------------------------------------------------------------------------
(* database.rs 218-236 and scanner.rs 413-422: toggle_favorite while a run *)
(* of full_sync is in progress                                             *)

RaceMaxToggles == 1

\* The files of a store that an earlier run filled: every file was ingested
\* at tick 0 and has since been written again, at tick MaxTime.
RacePaths == {<<1, n>> : n \in Names}

\* UPDATE files SET is_favorite = ? WHERE id = ?.
set_favorite(tbl, id, favorite) ==
    {IF r.id = id THEN [r EXCEPT !.is_favorite = favorite] ELSE r : r \in tbl}

NoToggle == [pc |-> "idle", id |-> 0, seen |-> FALSE, wrote |-> FALSE,
             during |-> FALSE, count |-> 0]

InitRace ==
    /\ root = TRUE
    /\ disk \in [RacePaths -> {DiskFile(MaxTime, c) : c \in {x \in Contents : x.nrec <= 1}}]
    /\ \E fav \in [RacePaths -> BOOLEAN] :
        files = {[id |-> generate_file_id(p), path |-> p, mtime |-> 0,
                  is_favorite |-> fav[p], has_workflow |-> FALSE] : p \in RacePaths}
    /\ meta = {}
    /\ status = "idle"
    /\ result = "none"
    /\ delta = EmptyDelta
    /\ task = <<>>
    /\ stats = NewStats
    /\ processed = 0
    /\ events = <<>>
    /\ hist = NewHist
    /\ used = [ops |-> 0, runs |-> 0]
    /\ lim = [ops |-> 0, runs |-> 1, files |-> MaxFiles, dirs |-> {1}]
    /\ pure = NoToggle

\* The task of the file with this id is between its start and its end.
Reingesting(id) ==
    /\ status = "running"
    /\ \E p \in DOMAIN task :
        generate_file_id(p) = id /\ task[p].pc \notin {"queued", "done"}

\* toggle_favorite, its SELECT: the command holds the application state lock
\* from here to its return, so no other command runs in between; full_sync
\* does not hold that lock while it runs.
ToggleRead(id) ==
    /\ pure.pc = "idle"
    /\ pure.count < RaceMaxToggles
    /\ status = "running"
    /\ HasId(files, id)
    /\ pure' = [pure EXCEPT !.pc = "read", !.id = id,
                            !.seen = RowOf(files, id).is_favorite,
                            !.count = @ + 1]
    /\ UNCHANGED <<root, disk, files, meta, status, result, delta, task, stats,
                   processed, events, hist, used, lim>>

\* toggle_favorite, its UPDATE with the negation of what the SELECT returned,
\* and the return of the new value.
ToggleWrite ==
    /\ pure.pc = "read"
    /\ files' = set_favorite(files, pure.id, ~pure.seen)
    /\ pure' = [pure EXCEPT !.pc = "done", !.wrote = ~pure.seen,
                            !.during = Reingesting(pure.id)]
    /\ UNCHANGED <<root, disk, meta, status, result, delta, task, stats,
                   processed, events, hist, used, lim>>

NextRace == SyncStep \/ (\E id \in StoredIds : ToggleRead(id)) \/ ToggleWrite

SpecRace == InitRace /\ [][NextRace]_vars

\* C36: a toggle_favorite on id X that commits while a task of full_sync is
\* re-ingesting X is not lost: once the toggle and the run have both
\* completed, the stored is_favorite of X is the value the toggle wrote.
ClaimToggleKept ==
    (/\ pure.pc = "done"
     /\ pure.during
     /\ status = "done"
     /\ HasId(files, pure.id))
    => RowOf(files, pure.id).is_favorite = pure.wrote

-----------------------------------------------------------------------------
(* commands.rs 403-479 and scanner.rs 413-422: a renamed or moved favorite *)
(* is ingested again                                                       *)

\* The store holds for path p a favorite record that rename_file or
\* move_files brought there: its id is the one of the path it was ingested
\* under.
RenamedFavorite(p) ==
    \E r \in files : r.path = p /\ r.is_favorite /\ r.id # generate_file_id(p)

\* The task of p saves its record in this step.
Reingested(p) ==
    /\ p \in DOMAIN task
    /\ task[p].pc = "upsert"
    /\ task'[p].pc # "upsert"
    /\ task'[p].result # "err"

\* C37: when full_sync ingests again the file of a favorite record that was
\* renamed or moved, the store afterwards holds exactly one record for the
\* new path and that record is still a favorite.
ClaimRenameKeepsFavorite ==
    [][\A p \in Paths :
        (RenamedFavorite(p) /\ Reingested(p))
            => /\ Cardinality({r \in files' : r.path = p}) = 1
               /\ \A r \in files' : r.path = p => r.is_favorite]_vars

-----------------------------------------------------------------------------
(* cache.rs 26-32, 47-63, 76-84: the size bound for every capacity         *)

CapMaxOps == 4

\* BoundedCache::new(max_size, ttl_seconds) for every max_size from 0 on.
InitCap ==
    /\ root = TRUE
    /\ disk = <<>>
    /\ files = {}
    /\ meta = {}
    /\ status = "idle"
    /\ result = "none"
    /\ delta = EmptyDelta
    /\ task = <<>>
    /\ stats = NewStats
    /\ processed = 0
    /\ events = <<>>
    /\ hist = NewHist
    /\ used = [ops |-> 0, runs |-> 0]
    /\ lim = [ops |-> CapMaxOps, runs |-> 0, files |-> 0, dirs |-> {}]
    /\ \E capacity \in 0..CacheMaxSize :
        pure = [cache |-> <<>>, max_size |-> capacity, now |-> 0, calls |-> 0,
                used_at |-> [k \in CacheKeys |-> 0],
                set_at |-> [k \in CacheKeys |-> 0],
                set_value |-> [k \in CacheKeys |-> None],
                reads |-> [k \in CacheKeys |-> 0],
                last |-> LastOp("none", None, FALSE, None, {}, NoStats)]

SpecCap == InitCap /\ [][NextCache]_vars

\* The step is a set of a key that was resident.
SetResident ==
    /\ pure'.last.op = "set"
    /\ pure'.calls = pure.calls + 1
    /\ pure'.last.key \in DOMAIN pure.cache

\* C38: for every capacity max_size >= 0, len() <= max_size after each set,
\* get, remove and clear; a set of a resident key replaces its value and
\* evicts nothing.
ClaimSizeBound ==
    [][/\ Cardinality(DOMAIN pure'.cache) <= pure'.max_size
       /\ SetResident =>
            /\ pure'.last.evicted = {}
            /\ DOMAIN pure'.cache = DOMAIN pure.cache
            /\ pure'.cache[pure'.last.key].value = pure'.set_value[pure'.last.key]
            /\ \A j \in (DOMAIN pure.cache) \ {pure'.last.key} :
                    pure'.cache[j] = pure.cache[j]]_vars

-----------------------------------------------------------------------------
(* commands.rs 15-70, 329-340 and the head of every command: AppState      *)

InitMaxCalls == 3
InitMaxOps == 2

\* The commands that take db_pool out of the application state.
ReadCommands ==
    {"get_files", "get_file_by_id", "search_files", "get_files_filtered", "get_stats"}

StoreCommands ==
    ReadCommands \cup {"toggle_favorite", "batch_favorite", "delete_file", "batch_delete",
                       "sync_files", "rename_file", "move_files"}

NotInitializedError == "Database not initialized"

\* A check that takes any state for an initialized one.
health_check_always(db_pool) == "healthy"

\* health_check: `if app_state.db_pool.is_none()`.
health_check(db_pool) == IF db_pool THEN "healthy" ELSE "not_initialized"

\* AppState::new(): every field None.  The output directory may be there or
\* not, with a file in it or not, and the store file of an earlier session
\* may hold a record; db_dir is smartgallery_cache, succeeded records that a
\* call of initialize_gallery has returned Ok.
InitApp ==
    /\ root \in BOOLEAN
    /\ disk \in {<<>>} \cup
                {[p \in {<<1, 1>>} |-> DiskFile(0, c)] : c \in {x \in Contents : x.nrec <= 1}}
    /\ (~root => disk = <<>>)
    /\ \E fav \in BOOLEAN :
        files \in {{}, {[id |-> generate_file_id(<<1, 1>>), path |-> <<1, 1>>, mtime |-> 0,
                         is_favorite |-> fav, has_workflow |-> FALSE]}}
    /\ meta = {}
    /\ status = "idle"
    /\ result = "none"
    /\ delta = EmptyDelta
    /\ task = <<>>
    /\ stats = NewStats
    /\ processed = 0
    /\ events = <<>>
    /\ hist = NewHist
    /\ used = [ops |-> 0, runs |-> 0]
    /\ lim = [ops |-> InitMaxOps, runs |-> 1, files |-> 1, dirs |-> {1}]
    /\ pure = [db_pool |-> FALSE, scanner_config |-> FALSE, db_dir |-> FALSE,
               succeeded |-> FALSE, calls |-> 0,
               last |-> [cmd |-> "none", ret |-> "none"]]

AppCall(cmd, ret) ==
    /\ pure.calls < InitMaxCalls
    /\ pure' = [pure EXCEPT !.calls = @ + 1, !.last = [cmd |-> cmd, ret |-> ret]]

\* initialize_gallery: create_dir_all of the store directory, init_db, then
\* the fields of the state are set; an error of the first two returns
\* before the state is touched.
InitializeGallery ==
    /\ pure.calls < InitMaxCalls
    /\ \E dir_ok, db_ok \in BOOLEAN :
        IF ~dir_ok
        THEN /\ db_ok
             /\ pure' = [pure EXCEPT !.calls = @ + 1,
                            !.last = [cmd |-> "initialize_gallery", ret |-> "err"]]
             /\ root' = root
        ELSE /\ root' = TRUE
             /\ pure' = [pure EXCEPT
                            !.calls = @ + 1,
                            !.db_dir = TRUE,
                            !.db_pool = @ \/ db_ok,
                            !.scanner_config = @ \/ db_ok,
                            !.succeeded = @ \/ db_ok,
                            !.last = [cmd |-> "initialize_gallery",
                                      ret |-> IF db_ok THEN "ok" ELSE "err"]]
    /\ UNCHANGED <<disk, files, meta, status, result, delta, task, stats,
                   processed, events, hist, used, lim>>

\* The head of a store command when db_pool is None:
\* `.ok_or("Database not initialized")?`, before anything else is done.
NotInitialized(cmd) ==
    /\ ~pure.db_pool
    /\ AppCall(cmd, NotInitializedError)
    /\ UNCHANGED <<root, disk, files, meta, status, result, delta, task, stats,
                   processed, events, hist, used, lim>>

\* A command that only reads the store, db_pool being there.
StoreRead(cmd) ==
    /\ pure.db_pool
    /\ AppCall(cmd, "ok")
    /\ UNCHANGED <<root, disk, files, meta, status, result, delta, task, stats,
                   processed, events, hist, used, lim>>

HealthCheck ==
    /\ AppCall("health_check", health_check(pure.db_pool))
    /\ UNCHANGED <<root, disk, files, meta, status, result, delta, task, stats,
                   processed, events, hist, used, lim>>

\* The commands that write, and sync_files, db_pool being there.
StoreWrite ==
    /\ pure.db_pool
    /\ \/ \E id \in StoredIds : ToggleFavorite(id) \/ DeleteFile(id)
       \/ \E id \in StoredIds, n \in Names : RenameFile(id, n)
       \/ \E ids \in MoveLists, d \in Dirs : MoveFiles(ids, d)
       \/ (pure.scanner_config /\ SyncBegin)

NextApp ==
    \/ InitializeGallery
    \/ \E cmd \in StoreCommands : NotInitialized(cmd)
    \/ \E cmd \in ReadCommands : StoreRead(cmd)
    \/ HealthCheck
    \/ StoreWrite
    \/ RunStep
    \/ SyncReturn

SpecApp == InitApp /\ [][NextApp]_vars

\* C39: while initialize_gallery has not succeeded, a step changes neither
\* the store nor the run state, changes the filesystem and the application
\* state only if it is initialize_gallery itself, every store command
\* returns "Database not initialized" and health_check returns
\* "not_initialized"; once initialize_gallery has succeeded health_check
\* returns "healthy", and the state stays initialized.
ClaimInitProtocol ==
    [][/\ ~pure.succeeded =>
            /\ UNCHANGED <<disk, files, meta, status, result, delta, task>>
            /\ pure'.last.cmd # "initialize_gallery"
                => UNCHANGED root /\ pure'.db_pool = pure.db_pool
                   /\ pure'.scanner_config = pure.scanner_config
            /\ pure'.last.cmd \in StoreCommands
                => pure'.last.ret = NotInitializedError
            /\ pure'.last.cmd = "health_check" => pure'.last.ret = "not_initialized"
       /\ pure.succeeded =>
            /\ pure'.succeeded /\ pure'.db_pool
            /\ pure'.last.cmd = "health_check" => pure'.last.ret = "healthy"
            /\ pure'.last.cmd \in StoreCommands
                => pure'.last.ret # NotInitializedError]_vars

\* initialize_gallery has succeeded over the store of an earlier session, and
\* health_check has answered "healthy" after it.
WitnessInitProtocol ==
    /\ pure.succeeded
    /\ pure.calls = 3
    /\ pure.last = [cmd |-> "health_check", ret |-> "healthy"]
    /\ files # {}

-----------------------------------------------------------------------------
(* commands.rs 181-206: delete_file, with its error paths                  *)

DelMaxCalls == 2

\* A command that goes on to the store when the file cannot be removed.
delete_file_ignoring(st, id, get_fails, remove_fails, db_fails) ==
    IF get_fails THEN [st EXCEPT !.ret = "err"]
    ELSE IF ~HasId(st.files, id) THEN [st EXCEPT !.ret = "ok"]
    ELSE LET path == RowOf(st.files, id).path
             left == IF path \in DOMAIN st.disk /\ ~remove_fails
                     THEN RemovePath(st.disk, path) ELSE st.disk
         IN  IF db_fails THEN [st EXCEPT !.disk = left, !.ret = "err"]
             ELSE [disk |-> left, files |-> delete_file(st.files, id),
                   meta |-> Cascade(st.meta, {id}), ret |-> "ok"]

\* delete_file (command) on the state st = [disk, files, meta, ret]: the
\* record is looked up; when there is one and its path exists the file is
\* removed, an error returning at once; then the record is deleted, its
\* parameter records with it (ON DELETE CASCADE).
delete_file_command(st, id, get_fails, remove_fails, db_fails) ==
    IF get_fails THEN [st EXCEPT !.ret = "err"]
    ELSE IF ~HasId(st.files, id) THEN [st EXCEPT !.ret = "ok"]
    ELSE LET path == RowOf(st.files, id).path
             left == IF path \in DOMAIN st.disk THEN RemovePath(st.disk, path)
                     ELSE st.disk
         IN  IF path \in DOMAIN st.disk /\ remove_fails THEN [st EXCEPT !.ret = "err"]
             ELSE IF db_fails THEN [st EXCEPT !.disk = left, !.ret = "err"]
             ELSE [disk |-> left, files |-> delete_file(st.files, id),
                   meta |-> Cascade(st.meta, {id}), ret |-> "ok"]

NoDelete == [id |-> 0, ret |-> "none", get_failed |-> FALSE, remove_failed |-> FALSE]

\* A store that earlier runs filled for some of the files of directory 1,
\* some of which are no longer on disk, and a disk with files not yet
\* ingested.
InitDelete ==
    /\ root = TRUE
    /\ \E D \in SUBSET RacePaths : disk = [p \in D |-> DiskFile(0, [has_workflow |-> TRUE, nrec |-> 1])]
    /\ \E S \in SUBSET RacePaths, fav \in BOOLEAN :
        /\ files = {[id |-> generate_file_id(p), path |-> p, mtime |-> 0,
                     is_favorite |-> fav, has_workflow |-> TRUE] : p \in S}
        /\ meta = {[file_id |-> generate_file_id(p), sampler_index |-> 0, data |-> 0] :
                        p \in S}
    /\ status = "idle"
    /\ result = "none"
    /\ delta = EmptyDelta
    /\ task = <<>>
    /\ stats = NewStats
    /\ processed = 0
    /\ events = <<>>
    /\ hist = NewHist
    /\ used = [ops |-> 0, runs |-> 0]
    /\ lim = [ops |-> DelMaxCalls, runs |-> 0, files |-> MaxFiles, dirs |-> {1}]
    /\ pure = [calls |-> 0, failures |-> 0, last |-> NoDelete]

\* One call of the command, the store and the disk failing or not.
DeleteFileCommand(id) ==
    /\ pure.calls < lim.ops
    /\ \E get_fails, remove_fails, db_fails \in BOOLEAN :
        LET st == delete_file_command([disk |-> disk, files |-> files, meta |-> meta,
                                       ret |-> "none"],
                                      id, get_fails, remove_fails, db_fails)
            remove_failed == /\ ~get_fails
                             /\ HasId(files, id)
                             /\ RowOf(files, id).path \in DOMAIN disk
                             /\ remove_fails
        IN  /\ disk' = st.disk
            /\ files' = st.files
            /\ meta' = st.meta
            /\ pure' = [calls |-> pure.calls + 1,
                        failures |-> pure.failures + (IF remove_failed THEN 1 ELSE 0),
                        last |-> [id |-> id, ret |-> st.ret, get_failed |-> get_fails,
                                  remove_failed |-> remove_failed]]
    /\ UNCHANGED <<root, status, result, delta, task, stats, processed, events,
                   hist, used, lim>>

NextDelete == \E id \in Ids : DeleteFileCommand(id)

SpecDelete == InitDelete /\ [][NextDelete]_vars

====
